---- MODULE Spec2Model ----
(***************************************************************************)
(* Model of submillisecond-live-view: the render-tree builder              *)
(* (src/rendered/builder.rs), the JSON diff engine (src/rendered/diff.rs,  *)
(* src/rendered/strip.rs) and the per-connection session actor             *)
(* (src/handler.rs, src/socket.rs, src/maud.rs).                           *)
(*                                                                         *)
(* Strings are sequences of one-letter tokens, so that concatenation       *)
(* (push_str, Display) is \o and the empty string is << >>.                *)
(***************************************************************************)
EXTENDS Integers, Sequences, FiniteSets, TLC

(* ----------------------------------------------------------------------- *)
(* serde_json::Value                                                       *)
(* A value is a record [t, v]: t names the variant, v holds the payload    *)
(* (a string, a number, a sequence of values, or a map from keys to        *)
(* values).                                                                *)
(* ----------------------------------------------------------------------- *)
JNull == [t |-> "null", v |-> << >>]

JStr(s) == [t |-> "str", v |-> s]

JNum(n) == [t |-> "num", v |-> n]

JArr(a) == [t |-> "arr", v |-> a]

JObj(m) == [t |-> "obj", v |-> m]

EmptyMap == [k \in {} |-> JNull]

(* the element of a one-element set; used to bind a value once it is     *)
(* computed, as a let binding of the source does                           *)
The(S) == CHOOSE x \in S : TRUE

(* Option<Value> *)
None == [some |-> FALSE, v |-> JNull]

Some(x) == [some |-> TRUE, v |-> x]

(* usize::to_string for the slot and template indices that occur *)
IndexKeys == <<"0", "1", "2", "3", "4", "5", "6", "7", "8", "9">>

ToKey(i) == IndexKeys[i + 1]

(* ----------------------------------------------------------------------- *)
(* strip.rs: strip(Strip::Nulls | Strip::Empties, value)                   *)
(* ----------------------------------------------------------------------- *)
RECURSIVE strip_mut_inner(_)
strip_mut_inner(value) ==
    CASE value.t = "null" -> [keep |-> FALSE, v |-> value]
      [] value.t = "obj" ->
            LET kept == {k \in DOMAIN value.v : strip_mut_inner(value.v[k]).keep}
                o == [k \in kept |-> strip_mut_inner(value.v[k]).v]
            IN  [keep |-> kept # {}, v |-> JObj(o)]
      [] value.t = "arr" ->
            LET n == Len(value.v)
                a == [i \in 1..n |->
                        IF strip_mut_inner(value.v[i]).keep
                        THEN strip_mut_inner(value.v[i]).v
                        ELSE JNull]
                null_count == Cardinality({i \in 1..n : ~strip_mut_inner(value.v[i]).keep})
                cleared == IF null_count = n THEN << >> ELSE a
            IN  [keep |-> cleared # << >>, v |-> JArr(cleared)]
      [] OTHER -> [keep |-> TRUE, v |-> value]

strip(value) ==
    IF strip_mut_inner(value).keep THEN Some(strip_mut_inner(value).v) ELSE None

(* ----------------------------------------------------------------------- *)
(* diff.rs                                                                 *)
(* ----------------------------------------------------------------------- *)
(* a diff that returns the new value whenever the two values differ *)
diff_replace(old, new) == IF old # new THEN Some(new) ELSE None

(* a diff_array that compares lengths only *)
diff_array_lengths_only(old, new) ==
    IF Len(old) # Len(new) THEN Some(JArr(new)) ELSE None

(* a diff_map that resends the new map *)
diff_map_resend(old, new) == Some(new)

(* a diff_array that sends only the elements appended to the old array *)
diff_array_appended(old, new) ==
    IF Len(old) < Len(new) /\ SubSeq(new, 1, Len(old)) = old
    THEN Some(JArr(SubSeq(new, Len(old) + 1, Len(new))))
    ELSE IF old # new THEN Some(JArr(new))
    ELSE None

diff_array(old, new) ==
    IF Len(old) # Len(new) THEN Some(JArr(new))
    ELSE IF \E i \in 1..Len(old) : old[i] # new[i] THEN Some(JArr(new))
    ELSE None

RECURSIVE diff(_, _)
diff_map(old, new) ==
    IF DOMAIN old = {} THEN Some(new)
    ELSE IF DOMAIN new.v = {} THEN Some(JObj([k \in DOMAIN old |-> JNull]))
    ELSE LET changed == {k \in DOMAIN old \cap DOMAIN new.v : diff(old[k], new.v[k]).some}
             removed == DOMAIN old \ DOMAIN new.v
             added == DOMAIN new.v \ DOMAIN old
             result == [k \in changed \cup removed \cup added |->
                          IF k \in changed THEN diff(old[k], new.v[k]).v
                          ELSE IF k \in removed THEN JNull
                          ELSE new.v[k]]
         IN  IF DOMAIN result = {} THEN None ELSE Some(JObj(result))

diff(old, new) ==
    CASE old.t = "null" -> strip(new)
      [] old.t = "arr" ->
            IF new.t = "arr" THEN diff_array(old.v, new.v) ELSE Some(JArr(<< >>))
      [] old.t = "obj" /\ new.t = "obj" -> diff_map(old.v, new)
      [] OTHER ->
            IF old # new
            THEN IF new.t = "str" /\ new.v = << >>
                 THEN Some(JObj("d" :> JArr(<< >>)))
                 ELSE Some(new)
            ELSE None

(* ----------------------------------------------------------------------- *)
(* builder.rs: the arena of accumulator nodes                              *)
(* A node is [parent, t, statics, dynamics, iteration]; t is "Items" or    *)
(* "List". The dynamics of an Items node are a sequence of DynamicNode,    *)
(* those of a List node a sequence of rows of DynamicNode. A DynamicNode   *)
(* is [t |-> "String", v |-> text] or [t |-> "Nested", v |-> node id].     *)
(* Node id 0 is NodeId::default(), the null key.                           *)
(* ----------------------------------------------------------------------- *)
(* usize::MAX, the initial iteration of a ListNode; the model uses the      *)
(* largest machine integer of the checker, and wrapping_add wraps at it    *)
UsizeMax == 2147483647

wrapping_add_1(n) == IF n = UsizeMax THEN 0 ELSE n + 1

NullNodeId == 0

EmptyString == << >>

DynString(s) == [t |-> "String", v |-> s]

DynNested(n) == [t |-> "Nested", v |-> n]

ItemsNodeDefault(parent) ==
    [parent |-> parent, t |-> "Items", statics |-> << >>, dynamics |-> << >>,
     iteration |-> 0]

ListNodeDefault(parent) ==
    [parent |-> parent, t |-> "List", statics |-> << >>, dynamics |-> << >>,
     iteration |-> UsizeMax]

RenderedBuilderNew ==
    [nodes |-> <<ItemsNodeDefault(NullNodeId)>>, last_node |-> 1, panicked |-> FALSE]

Panicked(b) == [b EXCEPT !.panicked = TRUE]

last_node_ok(b) == b.last_node \in 1..Len(b.nodes)

push_or_extend_static_string(statics, dynamics_len, s) ==
    IF Len(statics) > 0 /\ Len(statics) > dynamics_len
    THEN [statics EXCEPT ![Len(statics)] = @ \o s]
    ELSE Append(statics, s)

insert_empty_strings_underflows(statics, dynamics_len) ==
    dynamics_len > 0 /\ dynamics_len + 1 < Len(statics)

(* an insert_empty_strings that leaves the statics as they are *)
insert_empty_strings_none(statics, dynamics_len) == statics

insert_empty_strings(statics, dynamics_len) ==
    IF dynamics_len > 0 /\ dynamics_len + 1 >= Len(statics)
    THEN statics \o [i \in 1..(dynamics_len + 1 - Len(statics)) |-> EmptyString]
    ELSE statics

vecs_match(a, b) ==
    LET zipped == IF Len(a) < Len(b) THEN Len(a) ELSE Len(b)
        matching == Cardinality({i \in 1..zipped : a[i] = b[i]})
    IN  matching = Len(a) /\ matching = Len(b)

FirstRowLen(dynamics) == IF Len(dynamics) > 0 THEN Len(dynamics[1]) ELSE 0

ItemsNode_push_static(node, s) ==
    [node EXCEPT !.statics = push_or_extend_static_string(@, Len(node.dynamics), s)]

ItemsNode_push_dynamic(node, s) ==
    [node EXCEPT !.statics = IF @ = << >> THEN <<EmptyString>> ELSE @,
                 !.dynamics = Append(@, DynString(s))]

ListNode_push_static(node, s) ==
    IF node.iteration = 0
    THEN [node EXCEPT !.statics =
              push_or_extend_static_string(@, FirstRowLen(node.dynamics), s)]
    ELSE node

ListNode_push_dynamic(node, s) ==
    [node EXCEPT !.dynamics[Len(node.dynamics)] = Append(@, DynString(s))]

push_static(b, s) ==
    IF ~last_node_ok(b) THEN Panicked(b)
    ELSE LET node == b.nodes[b.last_node]
         IN  [b EXCEPT !.nodes[b.last_node] =
                  IF node.t = "Items" THEN ItemsNode_push_static(node, s)
                  ELSE ListNode_push_static(node, s)]

push_dynamic(b, s) ==
    IF ~last_node_ok(b) THEN Panicked(b)
    ELSE LET node == b.nodes[b.last_node]
         IN  IF node.t = "Items"
             THEN [b EXCEPT !.nodes[b.last_node] = ItemsNode_push_dynamic(node, s)]
             ELSE IF node.dynamics = << >> THEN Panicked(b)
             ELSE [b EXCEPT !.nodes[b.last_node] = ListNode_push_dynamic(node, s)]

push_dynamic_node(b, value) ==
    IF ~last_node_ok(b) THEN Panicked(b)
    ELSE LET id == Len(b.nodes) + 1
             node == b.nodes[b.last_node]
             pushed ==
                 IF node.t = "Items"
                 THEN [node EXCEPT !.dynamics = Append(@, DynNested(id)),
                                   !.statics = Append(@, EmptyString)]
                 ELSE IF node.dynamics # << >>
                 THEN [node EXCEPT !.dynamics[Len(node.dynamics)] =
                                       Append(@, DynNested(id))]
                 ELSE [node EXCEPT !.dynamics = <<<<DynNested(id)>>>>,
                                   !.statics = Append(@, EmptyString)]
         IN  [b EXCEPT !.nodes = Append([b.nodes EXCEPT ![b.last_node] = pushed], value),
                       !.last_node = id]

push_if_frame(b) == push_dynamic_node(b, ItemsNodeDefault(b.last_node))

push_for_frame(b) == push_dynamic_node(b, ListNodeDefault(b.last_node))

push_for_item(b) ==
    IF ~last_node_ok(b) THEN Panicked(b)
    ELSE LET node == b.nodes[b.last_node]
         IN  IF node.t = "Items" THEN Panicked(b)
             ELSE [b EXCEPT !.nodes[b.last_node] =
                      [node EXCEPT !.iteration = wrapping_add_1(@),
                                   !.dynamics = Append(@, << >>)]]

(* a pop_frame that stays in the frame *)
pop_frame_stay(b) == b

pop_frame(b) ==
    IF last_node_ok(b) THEN [b EXCEPT !.last_node = b.nodes[b.last_node].parent]
    ELSE b

(* ----------------------------------------------------------------------- *)
(* dynamic.rs and the values build() returns                               *)
(* Rendered is [statics, dynamics, templates], Dynamics is                 *)
(* [t |-> "Items", v |-> slots] or [t |-> "List", v |-> rows],             *)
(* RenderedListItem is [statics |-> template index, dynamics |-> Dynamics  *)
(* sequence]. The build functions return [panicked, v, ...]: panicked is   *)
(* set where the Rust code would abort on an arithmetic underflow or a     *)
(* failed unwrap.                                                          *)
(* ----------------------------------------------------------------------- *)
DynamicsItems(items) == [t |-> "Items", v |-> items]

DynamicsList(rows) == [t |-> "List", v |-> rows]

DynamicNested(nested) == [t |-> "Nested", v |-> nested]

MinOf(S) == CHOOSE i \in S : \A j \in S : i <= j

MaxOf(a, b) == IF a >= b THEN a ELSE b

find_template(templates, statics) ==
    LET found == {i \in 1..Len(templates) : vecs_match(templates[i], statics)}
    IN  IF found # {}
        THEN [statics |-> MinOf(found) - 1, templates |-> templates]
        ELSE [statics |-> Len(templates), templates |-> Append(templates, statics)]

RECURSIVE build_list(_, _, _)
RECURSIVE build_list_row(_, _, _)
RECURSIVE build_list_rows(_, _, _)
build_list_row(tree, dynamics, acc) ==
    IF dynamics = << >>
    THEN [v |-> << >>, templates |-> acc.templates, panicked |-> acc.panicked]
    ELSE LET front == build_list_row(tree, SubSeq(dynamics, 1, Len(dynamics) - 1), acc)
             last == build_list(tree, dynamics[Len(dynamics)], front)
         IN  [v |-> Append(front.v, last.v), templates |-> last.templates,
              panicked |-> last.panicked]

build_list_rows(tree, rows, acc) ==
    IF rows = << >>
    THEN [v |-> << >>, longest_dynamic |-> 0, templates |-> acc.templates,
          panicked |-> acc.panicked]
    ELSE LET front == build_list_rows(tree, SubSeq(rows, 1, Len(rows) - 1), acc)
             last == build_list_row(tree, rows[Len(rows)], front)
         IN  [v |-> Append(front.v, last.v),
              longest_dynamic |-> MaxOf(front.longest_dynamic, Len(last.v)),
              templates |-> last.templates, panicked |-> last.panicked]

build_list(tree, dynamic, acc) ==
    IF dynamic.t = "String"
    THEN [v |-> DynString(dynamic.v), templates |-> acc.templates,
          panicked |-> acc.panicked]
    ELSE LET node == tree.nodes[dynamic.v]
         IN  IF node.t = "Items"
             THEN IF node.statics = << >> /\ node.dynamics = << >>
                  THEN [v |-> DynString(EmptyString), templates |-> acc.templates,
                        panicked |-> acc.panicked]
                  ELSE LET row == build_list_row(tree, node.dynamics, acc)
                           statics == insert_empty_strings(node.statics, Len(row.v))
                           found == find_template(row.templates, statics)
                       IN  [v |-> DynamicNested(
                                     [statics |-> found.statics,
                                      dynamics |-> <<DynamicsList(<<row.v>>)>>]),
                            templates |-> found.templates,
                            panicked |-> row.panicked
                                \/ insert_empty_strings_underflows(node.statics, Len(row.v))]
             ELSE LET rows == build_list_rows(tree, node.dynamics, acc)
                      found == find_template(rows.templates, node.statics)
                      n == Len(found.templates)
                  IN  [v |-> DynamicNested(
                                [statics |-> found.statics,
                                 dynamics |-> [i \in 1..Len(rows.v) |->
                                                  DynamicsList(<<rows.v[i]>>)]]),
                       templates |-> [found.templates EXCEPT ![n] =
                                         insert_empty_strings(@, rows.longest_dynamic)],
                       panicked |-> rows.panicked
                           \/ insert_empty_strings_underflows(found.templates[n],
                                                              rows.longest_dynamic)]

RECURSIVE Node_build(_, _)
RECURSIVE build_items(_, _)
RECURSIVE build_items_all(_, _)
build_items_all(tree, dynamics) ==
    IF dynamics = << >> THEN [v |-> << >>, panicked |-> FALSE]
    ELSE LET front == build_items_all(tree, SubSeq(dynamics, 1, Len(dynamics) - 1))
             last == build_items(tree, dynamics[Len(dynamics)])
         IN  [v |-> Append(front.v, last.v), panicked |-> front.panicked \/ last.panicked]

ItemsNode_build(tree, node) ==
    LET dynamics == build_items_all(tree, node.dynamics)
    IN  [v |-> [statics |-> insert_empty_strings(node.statics, Len(dynamics.v)),
                dynamics |-> DynamicsItems(dynamics.v),
                templates |-> << >>],
         panicked |-> dynamics.panicked
             \/ insert_empty_strings_underflows(node.statics, Len(dynamics.v))]

ListNode_build(tree, node) ==
    LET rows == build_list_rows(tree, node.dynamics, [templates |-> << >>, panicked |-> FALSE])
    IN  [v |-> [statics |-> node.statics,
                dynamics |-> DynamicsList(rows.v),
                templates |-> rows.templates],
         panicked |-> rows.panicked]

Node_build(tree, id) ==
    IF tree.nodes[id].t = "Items" THEN ItemsNode_build(tree, tree.nodes[id])
    ELSE ListNode_build(tree, tree.nodes[id])

(* a build_items that keeps every nested node as a Nested tree *)
build_items_nested(tree, dynamic) ==
    IF dynamic.t = "String" THEN [v |-> DynString(dynamic.v), panicked |-> FALSE]
    ELSE [v |-> DynamicNested(Node_build(tree, dynamic.v).v),
          panicked |-> Node_build(tree, dynamic.v).panicked]

build_items(tree, dynamic) ==
    IF dynamic.t = "String" THEN [v |-> DynString(dynamic.v), panicked |-> FALSE]
    ELSE LET built == Node_build(tree, dynamic.v)
             nested == built.v
             dynamics_len == IF nested.dynamics.t = "Items" THEN Len(nested.dynamics.v)
                             ELSE FirstRowLen(nested.dynamics.v)
         IN  IF nested.statics = << >> /\ dynamics_len = 0
             THEN [v |-> DynString(EmptyString), panicked |-> built.panicked]
             ELSE [v |-> DynamicNested(
                            [nested EXCEPT !.statics =
                                 insert_empty_strings(@, dynamics_len)]),
                   panicked |-> built.panicked
                       \/ insert_empty_strings_underflows(nested.statics, dynamics_len)]

(* RenderedBuilder::build: the tree under last_node, or a panic when       *)
(* last_node is the null key or an earlier call panicked                   *)
EmptyRendered == [statics |-> << >>, dynamics |-> DynamicsItems(<< >>), templates |-> << >>]

build(b) ==
    IF b.panicked \/ ~last_node_ok(b) THEN [v |-> EmptyRendered, panicked |-> TRUE]
    ELSE Node_build(b, b.last_node)

(* ----------------------------------------------------------------------- *)
(* Builder events, as the html! macro emits them for one render. An event  *)
(* is [k, s]: k is the method called, s the string pushed (empty for the   *)
(* frame methods).                                                         *)
(* ----------------------------------------------------------------------- *)
EvStatic(s) == [k |-> "push_static", s |-> s]

EvDynamic(s) == [k |-> "push_dynamic", s |-> s]

EvIf == [k |-> "push_if_frame", s |-> EmptyString]

EvFor == [k |-> "push_for_frame", s |-> EmptyString]

EvItem == [k |-> "push_for_item", s |-> EmptyString]

EvPop == [k |-> "pop_frame", s |-> EmptyString]

apply_event(b, e) ==
    IF b.panicked THEN b
    ELSE CASE e.k = "push_static" -> push_static(b, e.s)
           [] e.k = "push_dynamic" -> push_dynamic(b, e.s)
           [] e.k = "push_if_frame" -> push_if_frame(b)
           [] e.k = "push_for_frame" -> push_for_frame(b)
           [] e.k = "push_for_item" -> push_for_item(b)
           [] OTHER -> pop_frame(b)

RECURSIVE apply_events(_, _)
apply_events(b, events) ==
    IF events = << >> THEN b
    ELSE The({apply_event(before, events[Len(events)]) :
                before \in {apply_events(b, SubSeq(events, 1, Len(events) - 1))}})

(* ----------------------------------------------------------------------- *)
(* Flattened text of a tree: statics interleaved positionally with the     *)
(* texts of the dynamic slots; a loop repeats its statics once per row, a  *)
(* list item takes its statics from the template table of its loop.        *)
(* ----------------------------------------------------------------------- *)
RECURSIVE Concat(_)
Concat(texts) ==
    IF texts = << >> THEN EmptyString ELSE Head(texts) \o Concat(Tail(texts))

Interleave(statics, texts) ==
    Concat([i \in 1..MaxOf(Len(statics), Len(texts)) |->
               (IF i <= Len(statics) THEN statics[i] ELSE EmptyString)
            \o (IF i <= Len(texts) THEN texts[i] ELSE EmptyString)])

RECURSIVE FlattenRendered(_)
RECURSIVE FlattenListItem(_, _)
FlattenListSlot(dynamic, templates) ==
    IF dynamic.t = "String" THEN dynamic.v ELSE FlattenListItem(dynamic.v, templates)

FlattenRow(statics, row, templates) ==
    Interleave(statics, [j \in 1..Len(row) |-> FlattenListSlot(row[j], templates)])

FlattenListItem(item, templates) ==
    LET statics == IF item.statics + 1 \in 1..Len(templates)
                   THEN templates[item.statics + 1] ELSE << >>
    IN  Concat([k \in 1..Len(item.dynamics) |->
                   Concat([r \in 1..Len(item.dynamics[k].v) |->
                              FlattenRow(statics, item.dynamics[k].v[r], templates)])])

FlattenSlot(dynamic) ==
    IF dynamic.t = "String" THEN dynamic.v ELSE FlattenRendered(dynamic.v)

FlattenRendered(rendered) ==
    IF rendered.dynamics.t = "Items"
    THEN Interleave(rendered.statics,
                    [i \in 1..Len(rendered.dynamics.v) |-> FlattenSlot(rendered.dynamics.v[i])])
    ELSE Concat([r \in 1..Len(rendered.dynamics.v) |->
                    FlattenRow(rendered.statics, rendered.dynamics.v[r], rendered.templates)])

(* ----------------------------------------------------------------------- *)
(* Wire encoding of a tree as a serde_json::Value                          *)
(* ----------------------------------------------------------------------- *)
KeyIndex(k) == CHOOSE i \in 0..(Len(IndexKeys) - 1) : ToKey(i) = k

SlotKeys(n) == {ToKey(i) : i \in 0..(n - 1)}

statics_into_json(statics) == JArr([i \in 1..Len(statics) |-> JStr(statics[i])])

templates_into_json(templates) ==
    JObj([k \in SlotKeys(Len(templates)) |-> statics_into_json(templates[KeyIndex(k) + 1])])

RECURSIVE ListItem_into_json(_)
ListSlot_into_json(dynamic) ==
    IF dynamic.t = "String" THEN JStr(dynamic.v) ELSE ListItem_into_json(dynamic.v)

Row_into_json(row) == JArr([j \in 1..Len(row) |-> ListSlot_into_json(row[j])])

RECURSIVE RowsOf(_)
RowsOf(dynamics) ==
    IF dynamics = << >> THEN << >>
    ELSE [r \in 1..Len(Head(dynamics).v) |-> Row_into_json(Head(dynamics).v[r])]
         \o RowsOf(Tail(dynamics))

ListItem_into_json(item) ==
    JObj(("s" :> JNum(item.statics)) @@ ("d" :> JArr(RowsOf(item.dynamics))))

RECURSIVE into_json(_)
Dynamic_into_json(dynamic) ==
    IF dynamic.t = "String" THEN JStr(dynamic.v) ELSE into_json(dynamic.v)

into_json(rendered) ==
    LET s == "s" :> statics_into_json(rendered.statics)
        p == IF rendered.templates = << >> THEN EmptyMap
             ELSE "p" :> templates_into_json(rendered.templates)
    IN  IF rendered.dynamics.t = "Items"
        THEN JObj(s @@ p @@ [k \in SlotKeys(Len(rendered.dynamics.v)) |->
                                Dynamic_into_json(rendered.dynamics.v[KeyIndex(k) + 1])])
        ELSE JObj(s @@ p @@ ("d" :> JArr([r \in 1..Len(rendered.dynamics.v) |->
                                            Row_into_json(rendered.dynamics.v[r])])))

(* Rendered::diff: the patch between the encodings of two trees *)
Rendered_diff(old, new) ==
    The({diff(a, b) : a \in {into_json(old)}, b \in {into_json(new)}})

(* ----------------------------------------------------------------------- *)
(* The receiving side: merging a patch into an encoding, and the flattened *)
(* text of an encoding                                                     *)
(* ----------------------------------------------------------------------- *)
RECURSIVE merge(_, _)
merge(target, patch) ==
    IF target.t = "obj" /\ patch.t = "obj"
    THEN JObj([k \in DOMAIN target.v \cup DOMAIN patch.v |->
                 IF k \notin DOMAIN patch.v THEN target.v[k]
                 ELSE IF k \notin DOMAIN target.v THEN patch.v[k]
                 ELSE merge(target.v[k], patch.v[k])])
    ELSE patch

apply_patch(encoded, patch) == IF patch.some THEN merge(encoded, patch.v) ELSE encoded

Has(obj, k) == k \in DOMAIN obj.v /\ obj.v[k].t # "null"

RECURSIVE FlattenJson(_, _)
JsonStatics(obj, templates) ==
    IF ~Has(obj, "s") THEN << >>
    ELSE IF obj.v["s"].t = "num"
    THEN IF ToKey(obj.v["s"].v) \in DOMAIN templates
            /\ templates[ToKey(obj.v["s"].v)].t = "arr"
         THEN [i \in 1..Len(templates[ToKey(obj.v["s"].v)].v) |->
                  templates[ToKey(obj.v["s"].v)].v[i].v]
         ELSE << >>
    ELSE [i \in 1..Len(obj.v["s"].v) |-> obj.v["s"].v[i].v]

FlattenJson(value, templates) ==
    CASE value.t = "str" -> value.v
      [] value.t = "obj" ->
            LET own == IF Has(value, "p") THEN value.v["p"].v ELSE templates
                statics == JsonStatics(value, own)
                slots == Cardinality(DOMAIN value.v \cap SlotKeys(Len(IndexKeys)))
            IN  IF Has(value, "d")
                THEN Concat([r \in 1..Len(value.v["d"].v) |->
                        Interleave(statics,
                            [j \in 1..Len(value.v["d"].v[r].v) |->
                                FlattenJson(value.v["d"].v[r].v[j], own)])])
                ELSE Interleave(statics,
                        [i \in 1..slots |->
                            IF ToKey(i - 1) \in DOMAIN value.v
                            THEN FlattenJson(value.v[ToKey(i - 1)], own)
                            ELSE EmptyString])
      [] OTHER -> EmptyString

(* ----------------------------------------------------------------------- *)
(* The event sequences one run of a template emits. The html! macro opens  *)
(* and closes frames in pairs, emits loop content only inside an item, and *)
(* every row of a loop repeats the first row's statics and slot kinds (the *)
(* content of a nested frame may differ from row to row). frames is the    *)
(* stack of open frames: [for, shape, pos, rows], shape being the tokens   *)
(* of the first row and pos the position in the current row.               *)
(* ----------------------------------------------------------------------- *)
MaxEvents == 6

MaxDepth == 3

StaticTexts == {<<"a">>}

DynamicTexts == {<< >>, <<"x">>}

Token(e) == IF e.k = "push_dynamic" THEN [e EXCEPT !.s = EmptyString] ELSE e

IsContent(e) == e.k \in {"push_static", "push_dynamic", "push_if_frame", "push_for_frame"}

TopFrame(fs) == fs[Len(fs)]

InLoop(fs) == fs # << >> /\ TopFrame(fs).for

RowComplete(f) == f.rows <= 1 \/ f.pos = Len(f.shape)

NewFrame(for) == [for |-> for, shape |-> << >>, pos |-> 0, rows |-> 0]

EventAllowed(fs, e) ==
    CASE IsContent(e) ->
            /\ e.k \in {"push_if_frame", "push_for_frame"} => Len(fs) < MaxDepth
            /\ InLoop(fs) =>
                  \/ TopFrame(fs).rows = 1
                  \/ /\ TopFrame(fs).rows > 1
                     /\ TopFrame(fs).pos < Len(TopFrame(fs).shape)
                     /\ TopFrame(fs).shape[TopFrame(fs).pos + 1] = Token(e)
      [] e.k = "push_for_item" -> InLoop(fs) /\ RowComplete(TopFrame(fs))
      [] OTHER -> fs # << >> /\ (TopFrame(fs).for => RowComplete(TopFrame(fs)))

NoteContent(fs, e) ==
    IF ~InLoop(fs) THEN fs
    ELSE [fs EXCEPT ![Len(fs)] =
            IF @.rows = 1
            THEN [@ EXCEPT !.shape = Append(@, Token(e)), !.pos = @ + 1]
            ELSE [@ EXCEPT !.pos = @ + 1]]

FramesAfter(fs, e) ==
    CASE e.k \in {"push_static", "push_dynamic"} -> NoteContent(fs, e)
      [] e.k = "push_if_frame" -> Append(NoteContent(fs, e), NewFrame(FALSE))
      [] e.k = "push_for_frame" -> Append(NoteContent(fs, e), NewFrame(TRUE))
      [] e.k = "push_for_item" ->
            [fs EXCEPT ![Len(fs)] = [@ EXCEPT !.rows = @ + 1, !.pos = 0]]
      [] OTHER -> SubSeq(fs, 1, Len(fs) - 1)

AllEvents ==
    {EvStatic(s) : s \in StaticTexts} \cup {EvDynamic(s) : s \in DynamicTexts}
        \cup {EvIf, EvFor, EvItem, EvPop}

(* the text a render writes, in the order it is pushed *)
RECURSIVE PushedText(_)
PushedText(es) ==
    IF es = << >> THEN EmptyString ELSE Head(es).s \o PushedText(Tail(es))

(* ----------------------------------------------------------------------- *)
(* State                                                                   *)
(* ----------------------------------------------------------------------- *)
VARIABLES
    builder,        \* the RenderedBuilder of the render in progress
    events,         \* the events pushed into it so far
    frames,         \* the frames the template has open
    built,          \* the result of build(), once called
    renders,        \* the events of two successive renders of one view
    state,          \* the tree the server keeps: the last one rendered
    patch,          \* the patch the last diff produced
    client,         \* the encoding the receiving side holds
    toggle,         \* a template with a conditional and its successive renders
    values,         \* two JSON values handed to diff, and what it returned
    slotmaps,       \* two trees diffed through their slot maps, and the results
    inbox,          \* websocket messages sent by the client, not yet read
    outbox,         \* websocket messages the server has written, in order
    sent,           \* number of messages the client has sent
    conn,           \* the connection process: its position and held message
    mailbox,        \* the mailbox of the event_handler process
    arrivals,       \* number of messages that have arrived in that mailbox
    running,        \* the mailbox messages being handled
    session,        \* the event_handler's state: the view and its last tree
    replies,        \* tagged replies sent back to the requesting processes
    ticker,         \* the process spawned by mount that sends timed events
    started,        \* tags of the mailbox messages, in the order they were taken
    handled,        \* log of the messages handled, in the order they completed
    spawned         \* the processes started by spawn_send_event, in spawn order

builderVars == <<builder, events, frames, built>>

diffVars == <<renders, state, patch, client, toggle, values, slotmaps>>

sessionVars ==
    <<inbox, outbox, sent, conn, mailbox, arrivals, running, session, replies,
      ticker, started, handled, spawned>>

vars ==
    <<builder, events, frames, built, renders, state, patch, client, toggle,
      values, slotmaps,
      inbox, outbox, sent, conn, mailbox, arrivals, running, session, replies,
      ticker, started, handled, spawned>>

NotBuilt == [done |-> FALSE, panicked |-> FALSE, v |-> EmptyRendered]

NoRenders == [old |-> << >>, new |-> << >>]

NoState == [mounted |-> FALSE, diffed |-> FALSE, v |-> EmptyRendered]

NoClient == [joined |-> FALSE, patched |-> FALSE, v |-> JNull]

NoToggle == [template |-> << >>, flags |-> << >>, trees |-> << >>]

NoValues == [old |-> JNull, new |-> JNull, done |-> FALSE, result |-> None]

(* rendered.rs RenderedDiff: statics (an Option) and a map from slot index  *)
(* to Dynamic<RenderedDiff>                                                *)
NoRenderedDiff == [statics |-> None, dynamics |-> << >>]

NoSlotMaps ==
    [old |-> EmptyRendered, new |-> EmptyRendered, done |-> FALSE,
     sorted |-> NoRenderedDiff, hashed |-> NoRenderedDiff, json |-> None]

DiffIdle ==
    /\ renders = NoRenders
    /\ state = NoState
    /\ patch = None
    /\ client = NoClient
    /\ toggle = NoToggle
    /\ values = NoValues
    /\ slotmaps = NoSlotMaps

BuilderIdle ==
    /\ builder = RenderedBuilderNew
    /\ events = << >>
    /\ frames = << >>
    /\ built = NotBuilt

(* socket.rs JoinEvent: the signed session, reduced to whether its          *)
(* signature verifies and the csrf token it carries, and params.csrf_token *)
NoJoin == [verifies |-> FALSE, session_csrf_token |-> "", csrf_token |-> ""]

(* socket.rs Event *)
NoEvent == [name |-> "", ty |-> "", value_ok |-> TRUE]

(* socket.rs Message: ref, event and the payload it deserializes to *)
NoMessage == [ref |-> 0, event |-> "none", join |-> NoJoin, ev |-> NoEvent]

(* examples/list.rs: List::mount *)
List_mount == [numbers |-> << >>]

(* handler.rs event_handler: let mut state = None *)
NoSession == [mounted |-> FALSE, live_view |-> List_mount, state |-> EmptyRendered]

ConnStart == [pc |-> "wait_for_join", join |-> NoMessage, message |-> NoMessage, tag |-> 0]

TickerNone == [pc |-> "none", tag |-> 0, ticks |-> 0]

SessionIdle ==
    /\ inbox = << >>
    /\ outbox = << >>
    /\ sent = 0
    /\ conn = ConnStart
    /\ mailbox = << >>
    /\ arrivals = 0
    /\ running = {}
    /\ session = NoSession
    /\ replies = {}
    /\ ticker = TickerNone
    /\ started = << >>
    /\ handled = << >>
    /\ spawned = << >>

InitBuilder == BuilderIdle /\ DiffIdle /\ SessionIdle

CanPush(e) == ~built.done /\ Len(events) < MaxEvents /\ EventAllowed(frames, e)

Pushed(e) ==
    /\ builder' = apply_event(builder, e)
    /\ events' = Append(events, e)
    /\ frames' = FramesAfter(frames, e)
    /\ UNCHANGED built
    /\ UNCHANGED diffVars
    /\ UNCHANGED sessionVars

PushStatic ==
    \E s \in StaticTexts :
        /\ CanPush(EvStatic(s))
        /\ Pushed(EvStatic(s))

PushDynamic ==
    \E s \in DynamicTexts :
        /\ CanPush(EvDynamic(s))
        /\ Pushed(EvDynamic(s))

PushIfFrame ==
    /\ CanPush(EvIf)
    /\ Pushed(EvIf)

PushForFrame ==
    /\ CanPush(EvFor)
    /\ Pushed(EvFor)

PushForItem ==
    /\ CanPush(EvItem)
    /\ Pushed(EvItem)

PopFrame ==
    /\ CanPush(EvPop)
    /\ Pushed(EvPop)

Build ==
    /\ ~built.done
    /\ frames = << >>
    /\ built' = [done |-> TRUE, panicked |-> build(builder).panicked,
                 v |-> build(builder).v]
    /\ UNCHANGED <<builder, events, frames>>
    /\ UNCHANGED diffVars
    /\ UNCHANGED sessionVars

NextBuilder ==
    \/ PushStatic
    \/ PushDynamic
    \/ PushIfFrame
    \/ PushForFrame
    \/ PushForItem
    \/ PopFrame
    \/ Build

SpecBuilder == InitBuilder /\ [][NextBuilder]_vars

(* ----------------------------------------------------------------------- *)
(* Properties of the builder                                               *)
(* ----------------------------------------------------------------------- *)
Built == built.done /\ ~built.panicked

(* C3: for every well-formed sequence of builder events, interleaving the  *)
(* statics and dynamics of the tree build() returns, recursively and with  *)
(* loop rows expanded through the loop's statics and template table, gives *)
(* the concatenation of the pushed strings in the order they were pushed.  *)
C3_FlattenIsPushedText ==
    Built => FlattenRendered(built.v) = PushedText(events)

RECURSIVE ItemShapeOk(_, _)
RowShapeOk(statics, row, templates) ==
    /\ Len(statics) = Len(row) + 1
    /\ \A j \in 1..Len(row) :
          row[j].t = "Nested" => ItemShapeOk(row[j].v, templates)

ItemShapeOk(item, templates) ==
    /\ item.statics + 1 \in 1..Len(templates)
    /\ \A k \in 1..Len(item.dynamics) :
          \A r \in 1..Len(item.dynamics[k].v) :
              RowShapeOk(templates[item.statics + 1], item.dynamics[k].v[r], templates)

RECURSIVE ShapeOk(_)
ShapeOk(rendered) ==
    IF rendered.dynamics.t = "Items"
    THEN /\ Len(rendered.statics) = Len(rendered.dynamics.v) + 1
         /\ \A i \in 1..Len(rendered.dynamics.v) :
               rendered.dynamics.v[i].t = "Nested" => ShapeOk(rendered.dynamics.v[i].v)
    ELSE \A r \in 1..Len(rendered.dynamics.v) :
             RowShapeOk(rendered.statics, rendered.dynamics.v[r], rendered.templates)

(* C4: every node of a tree build() returns, whatever its number of        *)
(* dynamic slots (zero included), has one static more than it has dynamic  *)
(* slots; for a loop node the slots are those of one row.                  *)
C4_StaticsOneMoreThanDynamics ==
    Built => ShapeOk(built.v)

(* ----------------------------------------------------------------------- *)
(* Two successive renders of a view and the patch between them             *)
(* (maud.rs handle_join and handle_event): the first render is stored and  *)
(* sent in full, the second is diffed against the stored one and replaces  *)
(* it, and the receiving side merges the patch into what it holds.         *)
(* ----------------------------------------------------------------------- *)
MaxDiffEvents == 4

RECURSIVE Prefixes(_)
Prefixes(n) ==
    IF n = 0 THEN {[es |-> << >>, fs |-> << >>]}
    ELSE LET shorter == Prefixes(n - 1)
             longer == {pe \in shorter \X AllEvents :
                           Len(pe[1].es) = n - 1 /\ EventAllowed(pe[1].fs, pe[2])}
         IN  shorter \cup {[es |-> Append(pe[1].es, pe[2]),
                            fs |-> FramesAfter(pe[1].fs, pe[2])] : pe \in longer}

Renders(n) == {p.es : p \in {q \in Prefixes(n) : q.fs = << >>}}

SmallRenders == Renders(MaxDiffEvents)

LoopRenders ==
    {es \in Renders(MaxEvents) : Len(es) >= 2 /\ es[1] = EvFor /\ es[2] = EvItem}

render(es) == The({build(b).v : b \in {apply_events(RenderedBuilderNew, es)}})

InitDiff ==
    /\ BuilderIdle
    /\ \/ \E old \in SmallRenders, new \in SmallRenders :
             renders = [old |-> old, new |-> new]
       \/ \E old \in LoopRenders, new \in LoopRenders :
             renders = [old |-> old, new |-> new]
       \/ \E old \in LoopRenders :
             renders = [old |-> old, new |-> <<EvFor, EvPop>>]
    /\ state = NoState
    /\ patch = None
    /\ client = NoClient
    /\ toggle = NoToggle
    /\ values = NoValues
    /\ slotmaps = NoSlotMaps
    /\ SessionIdle

(* handle_join: render, keep the tree, send its encoding *)
FirstRender ==
    /\ ~state.mounted
    /\ state' = [mounted |-> TRUE, diffed |-> FALSE, v |-> render(renders.old)]
    /\ client' = [joined |-> TRUE, patched |-> FALSE, v |-> into_json(render(renders.old))]
    /\ UNCHANGED <<renders, patch, toggle, values, slotmaps>>
    /\ UNCHANGED builderVars
    /\ UNCHANGED sessionVars

(* handle_event: render again, diff against the kept tree, replace it *)
DiffRender ==
    /\ state.mounted /\ ~state.diffed
    /\ patch' = Rendered_diff(state.v, render(renders.new))
    /\ state' = [mounted |-> TRUE, diffed |-> TRUE, v |-> render(renders.new)]
    /\ UNCHANGED <<renders, client, toggle, values, slotmaps>>
    /\ UNCHANGED builderVars
    /\ UNCHANGED sessionVars

(* the receiving side merges the patch *)
ApplyPatch ==
    /\ state.diffed /\ ~client.patched
    /\ client' = [joined |-> TRUE, patched |-> TRUE, v |-> apply_patch(client.v, patch)]
    /\ UNCHANGED <<renders, state, patch, toggle, values, slotmaps>>
    /\ UNCHANGED builderVars
    /\ UNCHANGED sessionVars

NextDiff ==
    \/ FirstRender
    \/ DiffRender
    \/ ApplyPatch

SpecDiff == InitDiff /\ [][NextDiff]_vars

(* C1: for all trees T1 and T2 the builder produces, merging the patch     *)
(* diff(T1, T2) into the encoding of T1 gives an encoding whose flattened  *)
(* text is the flattened text of the encoding of T2.                       *)
C1_PatchCorrect ==
    client.patched =>
        FlattenJson(client.v, EmptyMap) = FlattenJson(into_json(state.v), EmptyMap)

(* some object inside the value has the key *)
RECURSIVE MentionsKey(_, _)
MentionsKey(value, key) ==
    CASE value.t = "obj" ->
            \/ key \in DOMAIN value.v
            \/ \E k \in DOMAIN value.v : MentionsKey(value.v[k], key)
      [] value.t = "arr" -> \E i \in 1..Len(value.v) : MentionsKey(value.v[i], key)
      [] OTHER -> FALSE

(* a patch was merged into the encoding of a tree with a different text,   *)
(* and the new tree holds a loop with a template table                     *)
C1_Witness ==
    /\ client.patched
    /\ patch.some
    /\ MentionsKey(into_json(state.v), "p")
    /\ FlattenJson(client.v, EmptyMap)
          # FlattenJson(into_json(render(renders.old)), EmptyMap)

(* C2: diffing a tree against itself yields no patch.                      *)
C2_DiffSelfIsNone ==
    state.diffed /\ renders.old = renders.new => patch = None

(* a tree with a loop and a template table was diffed against itself       *)
C2_Witness ==
    /\ state.diffed
    /\ renders.old = renders.new
    /\ MentionsKey(into_json(state.v), "p")
    /\ patch = None

(* ----------------------------------------------------------------------- *)
(* The application: examples/list.rs, with the timer process that          *)
(* examples/clock.rs spawns in mount                                       *)
(* ----------------------------------------------------------------------- *)
(* type Events = (Add, Remove, IncrementLast) *)
List_Events == <<"Add", "Remove", "IncrementLast">>

List_handle_Add(live_view) ==
    LET numbers == live_view.numbers
    IN  [numbers |-> Append(numbers, IF numbers = << >> THEN 0
                                     ELSE numbers[Len(numbers)] + 1)]

List_handle_Remove(live_view) ==
    LET numbers == live_view.numbers
    IN  [numbers |-> IF numbers = << >> THEN << >>
                     ELSE SubSeq(numbers, 1, Len(numbers) - 1)]

List_handle_IncrementLast(live_view) ==
    LET numbers == live_view.numbers
    IN  [numbers |-> IF numbers = << >> THEN << >>
                     ELSE [numbers EXCEPT ![Len(numbers)] = @ + 1]]

List_handle(live_view, name) ==
    CASE name = "Add" -> List_handle_Add(live_view)
      [] name = "Remove" -> List_handle_Remove(live_view)
      [] name = "IncrementLast" -> List_handle_IncrementLast(live_view)

(* the builder calls html! makes for ul { @for num in &self.numbers { li { (num) } } } *)
RECURSIVE List_render_rows(_)
List_render_rows(numbers) ==
    IF numbers = << >> THEN << >>
    ELSE <<EvItem, EvStatic(<<"<li>">>), EvDynamic(<<ToKey(Head(numbers))>>),
           EvStatic(<<"</li>">>)>> \o List_render_rows(Tail(numbers))

List_render(live_view) ==
    render(<<EvStatic(<<"<ul>">>), EvFor>> \o List_render_rows(live_view.numbers)
             \o <<EvPop, EvStatic(<<"</ul>">>)>>)

(* an event list that hands the value to the handler without looking at it *)
EventList_handle_event_unchecked(live_view, event) ==
    LET matches == {i \in 1..Len(List_Events) : List_Events[i] = event.name}
    IN  IF matches = {}
        THEN [ok |-> TRUE, handled |-> FALSE, live_view |-> live_view]
        ELSE [ok |-> TRUE, handled |-> TRUE,
              live_view |-> List_handle(live_view, List_Events[MinOf(matches)])]

(* live_view.rs impl_event_list: the first type whose name matches takes    *)
(* the event; its value is deserialized before the handler runs            *)
EventList_handle_event(live_view, event) ==
    LET matches == {i \in 1..Len(List_Events) : List_Events[i] = event.name}
    IN  IF matches = {}
        THEN [ok |-> TRUE, handled |-> FALSE, live_view |-> live_view]
        ELSE IF ~event.value_ok
        THEN [ok |-> FALSE, handled |-> FALSE, live_view |-> live_view]
        ELSE [ok |-> TRUE, handled |-> TRUE,
              live_view |-> List_handle(live_view, List_Events[MinOf(matches)])]

(* ----------------------------------------------------------------------- *)
(* maud.rs: LiveViewMaud                                                   *)
(* ----------------------------------------------------------------------- *)
(* a csrf check that accepts every join *)
verify_csrf_token_any(event) == TRUE

verify_csrf_token(event) ==
    event.verifies /\ event.session_csrf_token = event.csrf_token

LiveViewMaud_handle_join(event) ==
    IF ~verify_csrf_token(event)
    THEN [variant |-> "FatalError", live_view |-> List_mount,
          state |-> EmptyRendered, reply |-> JNull, err |-> "invalid csrf token"]
    ELSE The({[variant |-> "Ok", live_view |-> List_mount, state |-> rendered,
               reply |-> JObj("rendered" :> into_json(rendered)), err |-> ""] :
                 rendered \in {List_render(List_mount)}})

(* a handle_event that keeps the tree it diffed against *)
LiveViewMaud_handle_event_keep(last, live_view) ==
    [variant |-> "Ok", state |-> last,
     reply |-> Rendered_diff(last, List_render(live_view))]

(* last is the tree the manager keeps (the state parameter) *)
LiveViewMaud_handle_event(last, live_view) ==
    The({[variant |-> "Ok", state |-> rendered,
          reply |-> Rendered_diff(last, rendered)] :
            rendered \in {List_render(live_view)}})

(* manager.rs: the variants of LiveViewManagerResult *)
LiveViewManagerResult == {"Ok", "Error", "FatalError"}

(* LiveViewManagerResult::into_result: Ok(value) for Ok, Err(err) for both  *)
(* Error and FatalError                                                    *)
into_result(result) == result.variant = "Ok"

(* LiveViewManager::handle_event of a manager whose result is the given    *)
(* variant: LiveViewMaud when it is Ok, otherwise an error that leaves the *)
(* state as it was                                                         *)
LiveViewManager_handle_event(variant, last, live_view) ==
    IF variant = "Ok"
    THEN LiveViewMaud_handle_event(last, live_view)
    ELSE [variant |-> variant, state |-> last, reply |-> None]

(* ----------------------------------------------------------------------- *)
(* handler.rs: the bodies of the two arms of the event_handler loop        *)
(* ----------------------------------------------------------------------- *)
ErrReply(err) == [ok |-> FALSE, some |-> FALSE, v |-> JNull, err |-> err]

(* a HandleJoin arm that answers without keeping the view and its tree *)
event_handler_HandleJoin_forget(sess, join_event) ==
    The({[session |-> sess, variant |-> join.variant,
          reply |-> IF into_result(join)
                    THEN [ok |-> TRUE, some |-> TRUE, v |-> join.reply, err |-> ""]
                    ELSE ErrReply("manager error")] :
            join \in {LiveViewMaud_handle_join(join_event)}})

event_handler_HandleJoin(sess, join_event) ==
    The({IF into_result(join)
         THEN [session |-> [mounted |-> TRUE, live_view |-> join.live_view,
                            state |-> join.state],
               variant |-> join.variant,
               reply |-> [ok |-> TRUE, some |-> TRUE, v |-> join.reply, err |-> ""]]
         ELSE [session |-> sess, variant |-> join.variant,
               reply |-> ErrReply("manager error")] :
            join \in {LiveViewMaud_handle_join(join_event)}})

(* the HandleEvent arm with a manager whose handle_event gives the variant; *)
(* variant "none" in the result: the manager was not called                *)
event_handler_HandleEvent_by(variant, sess, event) ==
    IF ~sess.mounted
    THEN [session |-> sess, variant |-> "none", reply |-> ErrReply("not mounted")]
    ELSE The({
           IF ~res.ok
           THEN [session |-> sess, variant |-> "none",
                 reply |-> ErrReply("deserialize event failed")]
           ELSE IF ~res.handled
           THEN [session |-> sess, variant |-> "none",
                 reply |-> ErrReply("unknown event")]
           ELSE The({[session |-> [mounted |-> TRUE, live_view |-> res.live_view,
                                   state |-> r.state],
                      variant |-> r.variant,
                      reply |-> IF into_result(r)
                                THEN [ok |-> TRUE, some |-> r.reply.some,
                                      v |-> r.reply.v, err |-> ""]
                                ELSE ErrReply("manager error")] :
                        r \in {LiveViewManager_handle_event(variant, sess.state,
                                                            res.live_view)}}) :
              res \in {EventList_handle_event(sess.live_view, event)}})

(* type Manager<T> = LiveViewMaud<T>: its handle_event always returns Ok *)
event_handler_HandleEvent(sess, event) ==
    event_handler_HandleEvent_by("Ok", sess, event)

(* the loop takes the next message only when the previous arm has returned *)
LoopAlwaysReady(run) == TRUE

LoopReady(run) == run = {}

(* a receive that takes the newest message *)
Mailbox_receive_newest(mbox) ==
    [message |-> mbox[Len(mbox)], rest |-> SubSeq(mbox, 1, Len(mbox) - 1)]

Mailbox_receive(mbox) == [message |-> Head(mbox), rest |-> Tail(mbox)]

(* EventHandlerMessage::HandleJoin / HandleEvent (parent, tag, payload) *)
HandleJoinMessage(parent, tag, join_event) ==
    [kind |-> "HandleJoin", parent |-> parent, tag |-> tag, join |-> join_event,
     ev |-> NoEvent]

HandleEventMessage(parent, tag, event) ==
    [kind |-> "HandleEvent", parent |-> parent, tag |-> tag, join |-> NoJoin,
     ev |-> event]

(* ----------------------------------------------------------------------- *)
(* socket.rs: what is written to the websocket                             *)
(* ----------------------------------------------------------------------- *)
reply_ok(message, response) ==
    [ref |-> message.ref, event |-> "phx_reply", status |-> "ok", response |-> response]

reply_err(message, response) ==
    [ref |-> message.ref, event |-> "phx_reply", status |-> "error", response |-> response]

(* RawSocket::send(ProtocolEvent::Diff, msg): a push without a message ref *)
send_diff(msg) == [ref |-> 0, event |-> "diff", status |-> "", response |-> msg]

(* a written message, with the tag of the request that caused it *)
Written(m, tag) ==
    [ref |-> m.ref, event |-> m.event, status |-> m.status, response |-> m.response,
     tag |-> tag]

(* handle_message, ProtocolEvent::Event: what is written for the reply *)
handle_message_Event(message, reply) ==
    IF reply.ok
    THEN IF reply.some
         THEN <<reply_ok(message, JObj("diff" :> reply.v))>>
         ELSE <<reply_ok(message, JObj(EmptyMap))>>
    ELSE << >>

(* a heartbeat arm that writes nothing *)
handle_message_Heartbeat_silent(message) == << >>

(* handle_message, ProtocolEvent::Heartbeat *)
handle_message_Heartbeat(message) == <<reply_ok(message, JObj(EmptyMap))>>

(* Message::take_event: the payload deserialized as an Event; a payload    *)
(* that is not one carries no event                                        *)
take_event(message) == [ok |-> message.ev # NoEvent, event |-> message.ev]

(* a wait_for_join that takes every protocol message for a join *)
wait_for_join_any(message) ==
    CASE message.event \in {"ws_close", "ws_error"} -> "closed"
      [] message.event \in {"ws_ping", "ws_undecodable"} -> "continue"
      [] OTHER -> "join"

(* wait_for_join: the arm the received message or error takes *)
wait_for_join(message) ==
    CASE message.event = "phx_join" -> "join"
      [] message.event \in {"phx_close", "phx_leave", "ws_close"} -> "closed"
      [] message.event = "ws_error" -> "closed"
      [] message.event = "ws_undecodable" -> "continue"
      [] OTHER -> "continue"

(* a loop that reads over a second join *)
handle_loop_arm_rejoin(message) ==
    CASE message.event = "ws_ping" -> "continue"
      [] message.event \in {"ws_close", "ws_error"} -> "break"
      [] message.event = "event" ->
            IF take_event(message).ok THEN "handle_event" ELSE "continue"
      [] message.event = "heartbeat" -> "heartbeat"
      [] message.event \in {"phx_close", "phx_leave"} -> "break"
      [] OTHER -> "continue"

(* a loop that ends the session on a message it cannot decode *)
handle_loop_arm_strict(message) ==
    CASE message.event \in {"ws_close", "ws_error", "ws_undecodable"} -> "break"
      [] message.event = "ws_ping" -> "continue"
      [] message.event = "event" ->
            IF take_event(message).ok THEN "handle_event" ELSE "break"
      [] message.event = "heartbeat" -> "heartbeat"
      [] message.event \in {"phx_close", "phx_leave", "phx_join"} -> "break"
      [] OTHER -> "continue"

(* handle: the arm of the read loop the received message or error takes,   *)
(* and for a protocol message the arm of handle_message                    *)
handle_loop_arm(message) ==
    CASE message.event = "ws_ping" -> "continue"
      [] message.event \in {"ws_close", "ws_error"} -> "break"
      [] message.event = "ws_undecodable" -> "continue"
      [] message.event = "event" ->
            IF take_event(message).ok THEN "handle_event" ELSE "continue"
      [] message.event = "heartbeat" -> "heartbeat"
      [] message.event \in {"phx_close", "phx_leave", "phx_join"} -> "break"
      [] OTHER -> "continue"

(* _send_event: what the sending process writes for the reply *)
send_event_msg(reply) == IF reply.some THEN reply.v ELSE JObj(EmptyMap)

(* ----------------------------------------------------------------------- *)
(* The session: the client, the connection process (handler.rs handle),    *)
(* the event_handler process and the timer process                         *)
(* ----------------------------------------------------------------------- *)
MaxClientMessages == 3

(* what the websocket delivers besides protocol messages: a ping or pong   *)
(* frame, a close frame, a read error, a frame that is not a Message       *)
TransportFrames == {"ws_ping", "ws_close", "ws_error", "ws_undecodable"}

MaxTicks == 2

SessionCsrfToken == "t1"

JoinEvents ==
    {[verifies |-> v, session_csrf_token |-> SessionCsrfToken, csrf_token |-> t] :
        v \in BOOLEAN, t \in {"t1", "t2"}}

ClientEvents ==
    {[name |-> n, ty |-> "click", value_ok |-> TRUE] :
        n \in {"Add", "Remove", "IncrementLast", "Unknown"}}
    \cup {[name |-> "Add", ty |-> "click", value_ok |-> FALSE]}

ClientMessages ==
    {[ref |-> 0, event |-> "phx_join", join |-> j, ev |-> NoEvent] : j \in JoinEvents}
    \cup {[ref |-> 0, event |-> "event", join |-> NoJoin, ev |-> e] : e \in ClientEvents}
    \cup {[ref |-> 0, event |-> k, join |-> NoJoin, ev |-> NoEvent] :
            k \in {"heartbeat", "phx_leave", "phx_close", "diff", "phx_reply",
                   "phx_error", "event"} \cup TransportFrames}

(* the event the timer process sends, as Tick in examples/clock.rs *)
TickEvent == [name |-> "IncrementLast", ty |-> "internal", value_ok |-> TRUE]

Entry(m, before, result) ==
    [kind |-> m.kind, tag |-> m.tag, parent |-> m.parent, name |-> m.ev.name,
     err |-> result.reply.err, variant |-> result.variant, before_view |-> before.live_view,
     before |-> before.state, live_view |-> result.session.live_view,
     after |-> result.session.state,
     reply |-> [some |-> result.reply.some, v |-> result.reply.v]]

(* a tag_send that always answers the connection process *)
ReplyTo_conn(m, reply) ==
    [to |-> "conn", tag |-> m.tag, ok |-> reply.ok, some |-> reply.some,
     v |-> reply.v, err |-> reply.err]

(* parent.tag_send(tag, reply) *)
ReplyTo(m, reply) ==
    [to |-> m.parent, tag |-> m.tag, ok |-> reply.ok, some |-> reply.some,
     v |-> reply.v, err |-> reply.err]

Init == BuilderIdle /\ DiffIdle /\ SessionIdle

(* the browser writes a message to the websocket *)
ClientSend ==
    \E m \in ClientMessages :
        /\ sent < MaxClientMessages
        /\ sent' = sent + 1
        /\ inbox' = Append(inbox, [m EXCEPT !.ref = sent + 1])
        /\ UNCHANGED <<outbox, conn, mailbox, arrivals, running, session, replies,
                       ticker, started, handled, spawned>>
        /\ UNCHANGED <<builderVars, diffVars>>

(* handle: wait_for_join reads one message; on a Join the event_handler    *)
(* process is spawned and EventHandler::handle_join sends it HandleJoin    *)
WaitForJoin ==
    /\ conn.pc = "wait_for_join"
    /\ inbox # << >>
    /\ inbox' = Tail(inbox)
    /\ LET message == Head(inbox)
       IN  CASE wait_for_join(message) = "join" ->
                   /\ conn' = [conn EXCEPT !.pc = "joining", !.join = message,
                                           !.tag = arrivals + 1]
                   /\ mailbox' = Append(mailbox,
                        HandleJoinMessage("conn", arrivals + 1, message.join))
                   /\ arrivals' = arrivals + 1
             [] wait_for_join(message) = "closed" ->
                   /\ conn' = [conn EXCEPT !.pc = "closed"]
                   /\ UNCHANGED <<mailbox, arrivals>>
             [] OTHER -> UNCHANGED <<conn, mailbox, arrivals>>
    /\ UNCHANGED <<outbox, sent, running, session, replies, ticker, started, handled,
                   spawned>>
    /\ UNCHANGED <<builderVars, diffVars>>

(* handle: the tagged reply to handle_join arrives *)
JoinReply ==
    \E r \in replies :
        /\ conn.pc = "joining"
        /\ r.to = "conn" /\ r.tag = conn.tag
        /\ replies' = replies \ {r}
        /\ IF r.ok
           THEN /\ outbox' = Append(outbox,
                     Written(reply_ok(conn.join, JObj("rendered" :> r.v)), r.tag))
                /\ conn' = [conn EXCEPT !.pc = "loop"]
           ELSE /\ outbox' = outbox
                /\ conn' = [conn EXCEPT !.pc = "closed"]
        /\ UNCHANGED <<inbox, sent, mailbox, arrivals, running, session, ticker,
                       started, handled, spawned>>
        /\ UNCHANGED <<builderVars, diffVars>>

(* handle: the loop reads one message and calls handle_message, up to the  *)
(* point where EventHandler::handle_event blocks on the tagged reply       *)
HandleMessage ==
    /\ conn.pc = "loop"
    /\ inbox # << >>
    /\ inbox' = Tail(inbox)
    /\ LET message == Head(inbox)
       IN  CASE handle_loop_arm(message) = "handle_event" ->
                   /\ conn' = [conn EXCEPT !.pc = "event_sent", !.message = message,
                                           !.tag = arrivals + 1]
                   /\ mailbox' = Append(mailbox,
                        HandleEventMessage("conn", arrivals + 1,
                                           take_event(message).event))
                   /\ arrivals' = arrivals + 1
                   /\ outbox' = outbox
             [] handle_loop_arm(message) = "heartbeat" ->
                   /\ outbox' = outbox \o
                        [i \in 1..Len(handle_message_Heartbeat(message)) |->
                            Written(handle_message_Heartbeat(message)[i], 0)]
                   /\ conn' = [conn EXCEPT !.message = message]
                   /\ UNCHANGED <<mailbox, arrivals>>
             [] handle_loop_arm(message) = "break" ->
                   /\ conn' = [conn EXCEPT !.pc = "closed", !.message = message]
                   /\ UNCHANGED <<outbox, mailbox, arrivals>>
             [] OTHER ->
                   /\ conn' = [conn EXCEPT !.message = message]
                   /\ UNCHANGED <<outbox, mailbox, arrivals>>
    /\ UNCHANGED <<sent, running, session, replies, ticker, started, handled,
                   spawned>>
    /\ UNCHANGED <<builderVars, diffVars>>

(* handle_message: the tagged reply to handle_event arrives *)
EventReply ==
    \E r \in replies :
        /\ conn.pc = "event_sent"
        /\ r.to = "conn" /\ r.tag = conn.tag
        /\ replies' = replies \ {r}
        /\ outbox' = outbox \o
             [i \in 1..Len(handle_message_Event(conn.message, r)) |->
                 Written(handle_message_Event(conn.message, r)[i], r.tag)]
        /\ conn' = [conn EXCEPT !.pc = "loop"]
        /\ UNCHANGED <<inbox, sent, mailbox, arrivals, running, session, ticker,
                       started, handled, spawned>>
        /\ UNCHANGED <<builderVars, diffVars>>

(* event_handler: mailbox.receive() at the top of the loop *)
ActorReceive ==
    /\ LoopReady(running)
    /\ mailbox # << >>
    /\ mailbox' = Mailbox_receive(mailbox).rest
    /\ running' = running \cup {Mailbox_receive(mailbox).message}
    /\ started' = Append(started, Mailbox_receive(mailbox).message.tag)
    /\ UNCHANGED <<inbox, outbox, sent, conn, arrivals, session, replies, ticker,
                   handled, spawned>>
    /\ UNCHANGED <<builderVars, diffVars>>

(* event_handler: the HandleJoin arm; mount spawns the timer process *)
ActorHandleJoin ==
    \E m \in running :
        /\ m.kind = "HandleJoin"
        /\ \E result \in {event_handler_HandleJoin(session, m.join)} :
               /\ session' = result.session
               /\ replies' = replies \cup {ReplyTo(m, result.reply)}
               /\ ticker' = IF result.reply.ok
                            THEN [pc |-> "sleeping", tag |-> 0, ticks |-> 0]
                            ELSE ticker
               /\ handled' = Append(handled, Entry(m, session, result))
        /\ running' = running \ {m}
        /\ UNCHANGED <<inbox, outbox, sent, conn, mailbox, arrivals, started, spawned>>
        /\ UNCHANGED <<builderVars, diffVars>>

(* event_handler: the HandleEvent arm *)
ActorHandleEvent ==
    \E m \in running :
        /\ m.kind = "HandleEvent"
        /\ \E result \in {event_handler_HandleEvent(session, m.ev)} :
               /\ session' = result.session
               /\ replies' = replies \cup {ReplyTo(m, result.reply)}
               /\ handled' = Append(handled, Entry(m, session, result))
        /\ running' = running \ {m}
        /\ UNCHANGED <<inbox, outbox, sent, conn, mailbox, arrivals, ticker, started,
                       spawned>>
        /\ UNCHANGED <<builderVars, diffVars>>

(* the timer process: the timeout fires and Socket::send_event sends       *)
(* HandleEvent to the event_handler process                                *)
TickerSend ==
    /\ ticker.pc = "sleeping"
    /\ ticker.ticks < MaxTicks
    /\ ticker' = [pc |-> "waiting", tag |-> arrivals + 1, ticks |-> ticker.ticks + 1]
    /\ mailbox' = Append(mailbox, HandleEventMessage("ticker", arrivals + 1, TickEvent))
    /\ arrivals' = arrivals + 1
    /\ UNCHANGED <<inbox, outbox, sent, conn, running, session, replies, started,
                   handled, spawned>>
    /\ UNCHANGED <<builderVars, diffVars>>

(* the timer process: the tagged reply arrives, _send_event writes the     *)
(* diff to the socket; an error makes unwrap() panic. The timer process    *)
(* writes through its own clone of the connection: once handle has         *)
(* returned the write succeeds or fails, as the peer keeps the transport   *)
(* open or not                                                             *)
TickerReply ==
    \E r \in replies, written \in BOOLEAN :
        /\ ticker.pc = "waiting"
        /\ r.to = "ticker" /\ r.tag = ticker.tag
        /\ conn.pc # "closed" => written
        /\ replies' = replies \ {r}
        /\ IF r.ok /\ written
           THEN /\ outbox' = Append(outbox, Written(send_diff(send_event_msg(r)), r.tag))
                /\ ticker' = [ticker EXCEPT !.pc = "sleeping"]
           ELSE /\ outbox' = outbox
                /\ ticker' = [ticker EXCEPT !.pc = "panicked"]
        /\ UNCHANGED <<inbox, sent, conn, mailbox, arrivals, running, session,
                       started, handled, spawned>>
        /\ UNCHANGED <<builderVars, diffVars>>

(* event_handler: the HandleEvent arm, for any manager: handle_event       *)
(* returns one of the three variants                                       *)
ActorHandleEventAny ==
    \E m \in running, variant \in LiveViewManagerResult :
        /\ m.kind = "HandleEvent"
        /\ \E result \in {event_handler_HandleEvent_by(variant, session, m.ev)} :
               /\ session' = result.session
               /\ replies' = replies \cup {ReplyTo(m, result.reply)}
               /\ handled' = Append(handled, Entry(m, session, result))
        /\ running' = running \ {m}
        /\ UNCHANGED <<inbox, outbox, sent, conn, mailbox, arrivals, ticker, started,
                       spawned>>
        /\ UNCHANGED <<builderVars, diffVars>>

Next ==
    \/ ClientSend
    \/ WaitForJoin
    \/ JoinReply
    \/ HandleMessage
    \/ EventReply
    \/ ActorReceive
    \/ ActorHandleJoin
    \/ ActorHandleEvent
    \/ TickerSend
    \/ TickerReply

Spec == Init /\ [][Next]_vars

(* the session with any manager in place of LiveViewMaud *)
NextManager ==
    \/ ClientSend
    \/ WaitForJoin
    \/ JoinReply
    \/ HandleMessage
    \/ EventReply
    \/ ActorReceive
    \/ ActorHandleJoin
    \/ ActorHandleEventAny
    \/ TickerSend
    \/ TickerReply

SpecManager == Init /\ [][NextManager]_vars

(* ----------------------------------------------------------------------- *)
(* Properties of the session                                               *)
(* ----------------------------------------------------------------------- *)
HandledEvent(e) == e.kind = "HandleEvent" /\ e.err = ""

Awaited(e) == conn.pc = "event_sent" /\ conn.tag = e.tag

WrittenFor(e) == {i \in 1..Len(outbox) : outbox[i].tag = e.tag}

BadJoin(j) == ~(j.verifies /\ j.session_csrf_token = j.csrf_token)

JoinPending ==
    \/ \E i \in 1..Len(mailbox) : mailbox[i].tag = conn.tag
    \/ \E m \in running : m.tag = conn.tag
    \/ \E r \in replies : r.to = "conn" /\ r.tag = conn.tag

(* C6: after a Join whose token differs from the token of the signed       *)
(* session, or whose session does not verify, the view is never mounted,   *)
(* nothing is ever written to the socket, and the connection process ends  *)
(* as soon as it has the answer to the join.                               *)
C6_BadJoinIsFatal ==
    conn.join.event = "phx_join" /\ BadJoin(conn.join.join) =>
        /\ ~session.mounted
        /\ ticker.pc = "none"
        /\ outbox = << >>
        /\ conn.pc \in {"joining", "closed"}
        /\ conn.pc = "joining" => JoinPending

(* a join with a verified session and a different token closed the         *)
(* connection, and a later client message stays unanswered                 *)
C6_Witness ==
    /\ conn.pc = "closed"
    /\ conn.join.event = "phx_join"
    /\ conn.join.join.verifies
    /\ conn.join.join.csrf_token # conn.join.join.session_csrf_token
    /\ inbox # << >>
    /\ Len(handled) = 1

(* C7: an event of a joined session whose name matches no handler leaves   *)
(* the view and the kept tree unchanged, and once the connection process   *)
(* has its answer a reply for it is on the socket.                         *)
C7_UnknownEventIsReplied ==
    \A k \in 1..Len(handled) :
        \E e \in {handled[k]} :
            e.kind = "HandleEvent" /\ e.err = "unknown event" /\ e.parent = "conn" =>
                /\ e.after = e.before
                /\ e.live_view = e.before_view
                /\ session.mounted
                /\ Awaited(e) \/ \E i \in WrittenFor(e) : outbox[i].event = "phx_reply"

HeartbeatRead ==
    /\ conn.pc = "loop"
    /\ inbox # << >>
    /\ Head(inbox).event = "heartbeat"
    /\ inbox' = Tail(inbox)

(* C8: reading a Heartbeat in the loop writes exactly one reply, ok with   *)
(* the empty object, leaves the view and the kept tree as they are and     *)
(* keeps the connection in its loop.                                       *)
C8_HeartbeatIsAcknowledged ==
    [][HeartbeatRead =>
          /\ outbox' = Append(outbox,
                Written(reply_ok(Head(inbox), JObj(EmptyMap)), 0))
          /\ session' = session
          /\ conn'.pc = "loop"]_vars

(* a heartbeat was acknowledged in a mounted session that had handled an   *)
(* event before                                                            *)
C8_Witness ==
    /\ session.mounted
    /\ conn.pc = "loop"
    /\ conn.message.event = "heartbeat"
    /\ Len(handled) >= 2
    /\ outbox # << >>
    /\ outbox[Len(outbox)] = Written(reply_ok(conn.message, JObj(EmptyMap)), 0)

(* C9: at most one message is being handled at any time, and the event a   *)
(* timer process sent with send_event and is waiting for is in the         *)
(* event_handler's mailbox, being handled, or answered.                    *)
C9_HandlersNeverOverlap ==
    /\ \A a, b \in running : a = b
    /\ ticker.pc = "waiting" =>
          \/ \E i \in 1..Len(mailbox) :
                mailbox[i] = HandleEventMessage("ticker", ticker.tag, TickEvent)
          \/ HandleEventMessage("ticker", ticker.tag, TickEvent) \in running
          \/ \E r \in replies : r.to = "ticker" /\ r.tag = ticker.tag

(* a timer event is being handled while a client event waits in the        *)
(* mailbox                                                                 *)
C9_Witness ==
    /\ \E m \in running : m.parent = "ticker"
    /\ \E i \in 1..Len(mailbox) :
          mailbox[i].parent = "conn" /\ mailbox[i].kind = "HandleEvent"

(* C10: messages are taken from the mailbox in the order they arrived      *)
(* (tags number the arrivals), and a message is taken only when every      *)
(* message taken before it has been handled.                               *)
C10_HandledInArrivalOrder ==
    /\ \A i \in 1..Len(started) : started[i] = i
    /\ Len(handled) <= Len(started)
    /\ Len(started) <= Len(handled) + 1
    /\ \A i \in 1..Len(handled) : handled[i].tag = started[i]

(* a client event and a timer event were in the mailbox together and were  *)
(* handled one after the other                                             *)
C10_Witness ==
    \E i \in 2..Len(handled) :
        /\ handled[i - 1].kind = "HandleEvent"
        /\ handled[i].kind = "HandleEvent"
        /\ handled[i - 1].parent # handled[i].parent
        /\ started = [k \in 1..Len(handled) |-> k]
        /\ running = {}

WaitingRead ==
    /\ conn.pc = "wait_for_join"
    /\ inbox # << >>
    /\ inbox' = Tail(inbox)

(* C11: while the connection waits for the join, a Join sends HandleJoin   *)
(* and is the only message that leaves the wait for the join step; Leave,  *)
(* Close, a close frame or a read error end the connection; every other    *)
(* message or frame is read and ignored: nothing is written, nothing is    *)
(* sent to the event_handler, no view is mounted, the wait goes on.        *)
C11_OnlyJoinAdvances ==
    [][WaitingRead =>
          /\ outbox' = outbox /\ outbox = << >>
          /\ session' = session /\ ~session.mounted
          /\ replies' = replies
          /\ CASE Head(inbox).event = "phx_join" ->
                    /\ conn'.pc = "joining"
                    /\ conn'.join = Head(inbox)
                    /\ mailbox' = <<HandleJoinMessage("conn", conn'.tag,
                                                      Head(inbox).join)>>
               [] Head(inbox).event \in {"phx_leave", "phx_close", "ws_close",
                                         "ws_error"} ->
                    /\ conn'.pc = "closed"
                    /\ mailbox' = mailbox
               [] OTHER ->
                    /\ conn' = conn
                    /\ mailbox' = mailbox /\ mailbox = << >>]_vars

(* the join was the third message: the two before it were read and ignored *)
C11_Witness ==
    /\ conn.pc = "joining"
    /\ conn.join.ref = 3
    /\ inbox = << >>

GoodJoin == conn.join.event = "phx_join" /\ ~BadJoin(conn.join.join)

JoinEntries == {k \in 1..Len(handled) : handled[k].kind = "HandleJoin"}

(* the reply handle writes for a join answered with the tree's encoding *)
JoinReplyFor(e) ==
    Written(reply_ok(conn.join,
                     JObj("rendered" :> JObj("rendered" :> into_json(e.after)))),
            e.tag)

(* C12: for a Join whose token is the token of the verified session, the   *)
(* view is mounted once (one HandleJoin is ever handled, by mount and a    *)
(* render of the mounted view), the rendered tree is the tree kept until   *)
(* the next event, and the step that takes the answer writes the only      *)
(* reply to the join: status ok, the full encoding of that tree with its   *)
(* statics, and leaves the connection in its loop.                         *)
C12_GoodJoinMountsOnce ==
    /\ [](GoodJoin =>
            /\ JoinEntries \subseteq {1}
            /\ conn.pc = "joining" =>
                  /\ JoinPending
                  /\ \A i \in 1..Len(outbox) : outbox[i].tag # conn.tag
            /\ conn.pc # "joining" =>
                  /\ JoinEntries = {1}
                  /\ session.mounted
                  /\ handled[1].live_view = List_mount
                  /\ handled[1].after = List_render(List_mount)
                  /\ Len(handled) = 1 => session.state = handled[1].after
                  /\ Cardinality(WrittenFor(handled[1])) = 1
                  /\ \A i \in WrittenFor(handled[1]) :
                        /\ outbox[i] = JoinReplyFor(handled[1])
                        /\ outbox[i].status = "ok"
                        /\ MentionsKey(outbox[i].response, "s"))
    /\ [][GoodJoin /\ conn.pc = "joining" /\ conn'.pc # "joining" =>
              conn'.pc = "loop" /\ Len(outbox') = Len(outbox) + 1]_vars

(* a good join was answered and the connection reads its loop *)
C12_Witness ==
    /\ GoodJoin
    /\ conn.pc = "loop"
    /\ Len(handled) = 1
    /\ Len(outbox) = 1
    /\ outbox[1].status = "ok"

LoopRead ==
    /\ conn.pc = "loop"
    /\ inbox # << >>
    /\ inbox' = Tail(inbox)

(* C13: in the loop a Leave, a Close, a close frame or a read error ends   *)
(* the connection, and once it has ended no message is handled any more    *)
(* (no handler, render or diff: the handled list, the view and the kept    *)
(* tree stay as they are), nothing more is written to the socket, and the  *)
(* connection stays ended; this includes the events a timer process sends  *)
(* afterwards.                                                             *)
C13_ClosedIsTerminal ==
    [][/\ LoopRead /\ Head(inbox).event \in {"phx_leave", "phx_close", "ws_close",
                                              "ws_error"} => conn'.pc = "closed"
       /\ conn.pc = "closed" =>
             /\ conn'.pc = "closed"
             /\ handled' = handled
             /\ session' = session
             /\ outbox' = outbox]_vars

Undecodable(message) ==
    \/ message.event = "ws_undecodable"
    \/ message.event = "event" /\ ~take_event(message).ok

(* C14: reading, in the loop, a frame that is not a Message or an Event    *)
(* whose payload is not an Event sends nothing to the event_handler (no    *)
(* handler runs), writes nothing, leaves the view and the kept tree as     *)
(* they are, and leaves the connection in its loop with the following      *)
(* messages still to be read.                                              *)
C14_UndecodableIsDropped ==
    [][LoopRead /\ Undecodable(Head(inbox)) =>
          /\ conn'.pc = "loop"
          /\ mailbox' = mailbox
          /\ arrivals' = arrivals
          /\ running' = running
          /\ handled' = handled
          /\ session' = session
          /\ outbox' = outbox
          /\ inbox' = Tail(inbox)]_vars

(* an Event with an invalid payload was dropped in a mounted session that  *)
(* had handled an event, and the next message waits to be read             *)
C14_Witness ==
    /\ conn.pc = "loop"
    /\ conn.message.event = "event"
    /\ ~take_event(conn.message).ok
    /\ session.mounted
    /\ Len(handled) >= 2
    /\ inbox # << >>

(* the process waits in tag_receive for the reply with this tag *)
Waits(who, tag) ==
    \/ who = "conn" /\ conn.pc \in {"joining", "event_sent"} /\ conn.tag = tag
    \/ who = "ticker" /\ ticker.pc = "waiting" /\ ticker.tag = tag

EntryOf(tag) == {k \in 1..Len(handled) : handled[k].tag = tag}

(* C15: every reply in flight is the answer computed for one handled       *)
(* request, carries that request's tag and is addressed to the process     *)
(* that sent it, which is waiting for that tag; and what a process wrote   *)
(* to the socket after its request carries the answer to that request:     *)
(* the connection process a phx_reply with it, the timer process a diff.   *)
C15_RepliesReachTheirRequester ==
    /\ \A r \in replies :
          /\ Cardinality(EntryOf(r.tag)) = 1
          /\ \A k \in EntryOf(r.tag) :
                /\ handled[k].parent = r.to
                /\ handled[k].reply = [some |-> r.some, v |-> r.v]
                /\ handled[k].err = r.err
          /\ Waits(r.to, r.tag)
          /\ \A q \in replies : q.tag = r.tag => q = r
    /\ \A i \in 1..Len(outbox) :
          outbox[i].tag # 0 =>
             /\ Cardinality(EntryOf(outbox[i].tag)) = 1
             /\ \A k \in EntryOf(outbox[i].tag) :
                   IF handled[k].parent = "ticker"
                   THEN /\ outbox[i].event = "diff"
                        /\ outbox[i].response = send_event_msg(handled[k].reply)
                   ELSE /\ outbox[i].event = "phx_reply"
                        /\ outbox[i].response =
                              CASE handled[k].kind = "HandleJoin" ->
                                      JObj("rendered" :> handled[k].reply.v)
                                [] handled[k].reply.some ->
                                      JObj("diff" :> handled[k].reply.v)
                                [] OTHER -> JObj(EmptyMap)

(* the answers to a client event and to a timer event are in flight        *)
(* together                                                                *)
C15_Witness ==
    \E r, q \in replies :
        /\ r.to = "conn" /\ q.to = "ticker"
        /\ r.ok /\ q.ok
        /\ r.v # q.v

(* C16: once the connection process has the answer to a request for which  *)
(* the manager returned FatalError, from handle_join or from handle_event, *)
(* the connection has ended; it is never back in its loop.                 *)
C16_FatalErrorCloses ==
    \A k \in 1..Len(handled) :
        handled[k].variant = "FatalError" /\ handled[k].parent = "conn" =>
            \/ Waits("conn", handled[k].tag)
            \/ conn.pc = "closed"

(* ----------------------------------------------------------------------- *)
(* A loop whose rows hold one conditional or one nested loop, as html!     *)
(* emits it for  @for x in xs { @if .. { .. } @else { .. } }  and for      *)
(* @for xs in xss { @for x in xs { .. } }  (builder.rs tests               *)
(* for_loop_with_if, for_loop_nested): each row is push_for_item and one   *)
(* nested frame with its content                                          *)
(* ----------------------------------------------------------------------- *)
MaxRows == 3

RowContents ==
    {<< >>,
     <<EvStatic(<<"a">>)>>,
     <<EvStatic(<<"a">>), EvDynamic(<< >>)>>,
     <<EvStatic(<<"a">>), EvDynamic(<<"x">>)>>,
     <<EvStatic(<<"b">>)>>,
     <<EvStatic(<<"b">>), EvDynamic(<<"x">>)>>}

RowBodies ==
    {<<EvIf>> \o c \o <<EvPop>> : c \in RowContents}
        \cup {<<EvFor, EvItem>> \o c \o <<EvPop>> : c \in RowContents}
        \cup {<<EvFor, EvPop>>}

(* the bodies of the rows pushed after the opening push_for_frame *)
RECURSIVE RowsOfEvents(_, _, _)
RowsOfEvents(es, depth, acc) ==
    IF es = << >> THEN acc
    ELSE IF depth = 0 /\ Head(es).k = "push_for_item"
    THEN RowsOfEvents(Tail(es), 0, Append(acc, << >>))
    ELSE IF depth = 0 /\ Head(es).k = "pop_frame" THEN acc
    ELSE RowsOfEvents(Tail(es),
                      CASE Head(es).k \in {"push_if_frame", "push_for_frame"} -> depth + 1
                        [] Head(es).k = "pop_frame" -> depth - 1
                        [] OTHER -> depth,
                      [acc EXCEPT ![Len(acc)] = Append(@, Head(es))])

Tokens(es) == [i \in 1..Len(es) |-> Token(es[i])]

(* the rows of a nested loop come from one template: they push the same    *)
(* events with other values, or the nested loop is empty; the branches of  *)
(* a conditional may differ                                                *)
SameTemplate(body, rows) ==
    body[1] = EvFor =>
        \A i \in 1..Len(rows) :
            Len(rows[i]) = 2 \/ Len(body) = 2 \/ Tokens(rows[i]) = Tokens(body)

RECURSIVE FramesAfterAll(_, _)
FramesAfterAll(fs, es) ==
    IF es = << >> THEN fs ELSE FramesAfterAll(FramesAfter(fs, Head(es)), Tail(es))

PushedAll(es) ==
    /\ builder' = apply_events(builder, es)
    /\ events' = events \o es
    /\ frames' = FramesAfterAll(frames, es)
    /\ UNCHANGED built
    /\ UNCHANGED diffVars
    /\ UNCHANGED sessionVars

BeginLoop ==
    /\ ~built.done
    /\ events = << >>
    /\ PushedAll(<<EvFor>>)

PushRow ==
    \E body \in RowBodies :
        /\ ~built.done
        /\ Len(frames) = 1
        /\ frames[1].rows < MaxRows
        /\ EventAllowed(FramesAfter(frames, EvItem), body[1])
        /\ SameTemplate(body, RowsOfEvents(Tail(events), 0, << >>))
        /\ PushedAll(<<EvItem>> \o body)

EndLoop ==
    /\ ~built.done
    /\ Len(frames) = 1
    /\ PushedAll(<<EvPop>>)

BuildRows ==
    /\ events # << >>
    /\ Build

NextRows ==
    \/ BeginLoop
    \/ PushRow
    \/ EndLoop
    \/ BuildRows

SpecRows == InitBuilder /\ [][NextRows]_vars

(* the strings and values pushed inside the nested frame of a row body *)
InnerContent(body) ==
    SelectSeq(body, LAMBDA e : e.k \in {"push_static", "push_dynamic"})

(* the statics of a content: its static text split at the dynamic values *)
RECURSIVE StaticsOfContent(_)
StaticsOfContent(content) ==
    IF content = << >> THEN <<EmptyString>>
    ELSE LET front == StaticsOfContent(SubSeq(content, 1, Len(content) - 1))
             last == content[Len(content)]
         IN  IF last.k = "push_dynamic" THEN Append(front, EmptyString)
             ELSE [front EXCEPT ![Len(front)] = @ \o last.s]

LoopBuilt ==
    /\ Built
    /\ Len(built.v.dynamics.v) = 1
    /\ built.v.dynamics.v[1].t = "Nested"

NestedRows ==
    {i \in 1..Len(built.v.dynamics.v[1].v.dynamics.v) :
        /\ Len(built.v.dynamics.v[1].v.dynamics.v[i]) = 1
        /\ built.v.dynamics.v[1].v.dynamics.v[i][1].t = "Nested"}

TemplateIdOfRow(i) == built.v.dynamics.v[1].v.dynamics.v[i][1].v.statics

StaticsOfRow(i) ==
    StaticsOfContent(InnerContent(RowsOfEvents(Tail(events), 0, << >>)[i]))

(* C17: in the tree built for a loop, two rows whose nested frames have    *)
(* the same statics (the same static text split at the same places, with   *)
(* any dynamic values) reference the same template id, and two rows whose  *)
(* nested frames have different statics reference different template ids.  *)
C17_TemplateIdsFollowStatics ==
    LoopBuilt =>
        \A i, j \in NestedRows :
            (StaticsOfRow(i) = StaticsOfRow(j)) <=> (TemplateIdOfRow(i) = TemplateIdOfRow(j))

(* ----------------------------------------------------------------------- *)
(* A view that renders  @for name in names { span { (name) } }  over a     *)
(* list of names that grows and shrinks (tests/diff.rs for_loop_dynamics): *)
(* each change renders again and diffs against the kept tree               *)
(* ----------------------------------------------------------------------- *)
MaxNames == 4

Names == {"John", "Jim", "Joe"}

RECURSIVE Names_render_rows(_)
Names_render_rows(names) ==
    IF names = << >> THEN << >>
    ELSE <<EvItem, EvStatic(<<"<span>">>), EvDynamic(<<Head(names)>>),
           EvStatic(<<"</span>">>)>> \o Names_render_rows(Tail(names))

Names_render(names) == <<EvFor>> \o Names_render_rows(names) \o <<EvPop>>

(* the names a render was made for *)
NamesOf(es) ==
    [i \in 1..Len(SelectSeq(es, LAMBDA e : e.k = "push_dynamic")) |->
        SelectSeq(es, LAMBDA e : e.k = "push_dynamic")[i].s[1]]

InitNames ==
    /\ BuilderIdle
    /\ renders = [old |-> << >>, new |-> Names_render(<< >>)]
    /\ \E rendered \in {render(Names_render(<< >>))} :
          state = [mounted |-> TRUE, diffed |-> FALSE, v |-> rendered]
    /\ patch = None
    /\ client = NoClient
    /\ toggle = NoToggle
    /\ values = NoValues
    /\ slotmaps = NoSlotMaps
    /\ SessionIdle

Rerendered(es) ==
    \E rendered \in {render(es)} :
        /\ patch' = Rendered_diff(state.v, rendered)
        /\ state' = [mounted |-> TRUE, diffed |-> TRUE, v |-> rendered]
        /\ renders' = [old |-> renders.new, new |-> es]
        /\ UNCHANGED <<client, toggle, values, slotmaps>>
        /\ UNCHANGED builderVars
        /\ UNCHANGED sessionVars

NamesGrow ==
    \E name \in Names :
        /\ Len(NamesOf(renders.new)) < MaxNames
        /\ Rerendered(Names_render(Append(NamesOf(renders.new), name)))

NamesShrink ==
    /\ NamesOf(renders.new) # << >>
    /\ Rerendered(Names_render(SubSeq(NamesOf(renders.new), 1,
                                      Len(NamesOf(renders.new)) - 1)))

NextNames ==
    \/ NamesGrow
    \/ NamesShrink

SpecNames == InitNames /\ [][NextNames]_vars

Grown(n) ==
    /\ state.diffed
    /\ Len(NamesOf(renders.old)) = n
    /\ Len(NamesOf(renders.new)) = n + 1

(* the rows a patch carries for the loop in slot 0 *)
PatchRows == patch.v.v["0"].v["d"]

RowOfName(name) == JArr(<<JStr(<<name>>)>>)

(* C18, as stated: the patch after the growth from no name to one carries  *)
(* the one new row, and the patch after the growth from one name to two    *)
(* carries only the new row and not the row that did not change.           *)
C18_OnlyNewRowIsSent ==
    Grown(0) \/ Grown(1) =>
        /\ patch.some
        /\ PatchRows = JArr(<<RowOfName(NamesOf(renders.new)[Len(NamesOf(renders.new))])>>)

(* C18, amended: the patch after any growth of the list carries the whole  *)
(* new list of rows, unchanged rows included, under "d"; the statics are   *)
(* in it only when the list was empty before.                              *)
C18_GrowthResendsAllRows ==
    \A n \in 0..MaxNames :
        Grown(n) =>
            /\ patch.some
            /\ PatchRows = JArr([i \in 1..(n + 1) |-> RowOfName(NamesOf(renders.new)[i])])
            /\ ("s" \in DOMAIN patch.v.v["0"].v) <=> (n = 0)

(* the list grew from John to John, Jim *)
C18_Witness ==
    /\ Grown(1)
    /\ NamesOf(renders.old) = <<"John">>
    /\ NamesOf(renders.new) = <<"John", "Jim">>
    /\ patch.some

(* ----------------------------------------------------------------------- *)
(* A template with one conditional, rendered again and again with the      *)
(* condition true or false:  prefix @if c { then } @else { else } suffix   *)
(* (tests/rendered.rs if_statement_false, if_statement_true,               *)
(* if_statement_let_some, if_statement_let_none). Each render starts from  *)
(* a new builder; html! opens the frame, pushes the branch taken (nothing  *)
(* for a false condition without else) and closes the frame.               *)
(* ----------------------------------------------------------------------- *)
MaxToggles == 3

TogglePrefixes == {<< >>, <<EvStatic(<<"Welcome ">>)>>, <<EvDynamic(<<"x">>)>>}

ToggleThens ==
    {<<EvStatic(<<"person">>)>>, <<EvDynamic(<<"Bob">>)>>,
     <<EvStatic(<<"a">>), EvDynamic(<<"Bob">>)>>}

ToggleElses == {<< >>, <<EvStatic(<<"stranger">>)>>, <<EvDynamic(<<"x">>)>>}

ToggleSuffixes == {<< >>, <<EvStatic(<<".">>)>>, <<EvDynamic(<<"x">>)>>}

ToggleTemplates ==
    {[prefix |-> p, then |-> t, else |-> e, suffix |-> x] :
        p \in TogglePrefixes, t \in ToggleThens, e \in ToggleElses,
        x \in ToggleSuffixes}

Toggle_render(template, flag) ==
    template.prefix \o <<EvIf>> \o (IF flag THEN template.then ELSE template.else)
        \o <<EvPop>> \o template.suffix

InitToggle ==
    /\ BuilderIdle
    /\ renders = NoRenders
    /\ state = NoState
    /\ patch = None
    /\ client = NoClient
    /\ \E template \in ToggleTemplates :
          toggle = [template |-> template, flags |-> << >>, trees |-> << >>]
    /\ values = NoValues
    /\ slotmaps = NoSlotMaps
    /\ SessionIdle

(* one render of the template *)
ToggleRender ==
    \E flag \in BOOLEAN :
        /\ Len(toggle.flags) < MaxToggles
        /\ \E b \in {apply_events(RenderedBuilderNew,
                                   Toggle_render(toggle.template, flag))} :
              toggle' = [toggle EXCEPT !.flags = Append(@, flag),
                                       !.trees = Append(@, build(b))]
        /\ UNCHANGED <<renders, state, patch, client, values, slotmaps>>
        /\ UNCHANGED builderVars
        /\ UNCHANGED sessionVars

NextToggle == ToggleRender

SpecToggle == InitToggle /\ [][NextToggle]_vars

FalseTrueFalse == toggle.flags = <<FALSE, TRUE, FALSE>>

(* C19: after renders of one template with its condition false, true and   *)
(* false, no build has aborted, the third tree is the first tree, and the  *)
(* statics of the outer node are the same in the three trees.              *)
C19_ToggleLeavesOuterNode ==
    FalseTrueFalse =>
        /\ \A i \in 1..3 : ~toggle.trees[i].panicked
        /\ toggle.trees[3] = toggle.trees[1]
        /\ toggle.trees[2].v.statics = toggle.trees[1].v.statics
        /\ toggle.trees[3].v.statics = toggle.trees[1].v.statics
        /\ Len(toggle.trees[2].v.dynamics.v) = Len(toggle.trees[1].v.dynamics.v)

(* a template with text before and after the conditional, rendered false,  *)
(* true, false; the true render holds a nested tree                        *)
C19_Witness ==
    /\ FalseTrueFalse
    /\ toggle.template.prefix # << >>
    /\ toggle.template.suffix # << >>
    /\ \E i \in 1..Len(toggle.trees[2].v.dynamics.v) :
          toggle.trees[2].v.dynamics.v[i].t = "Nested"

(* Welcome {if loggedIn}{name}{else}stranger{end}. *)
WelcomeTemplate ==
    [prefix |-> <<EvStatic(<<"Welcome ">>)>>, then |-> <<EvDynamic(<<"Bob">>)>>,
     else |-> <<EvStatic(<<"stranger">>)>>, suffix |-> <<EvStatic(<<".">>)>>]

WelcomeRendered == FalseTrueFalse /\ toggle.template = WelcomeTemplate

WelcomeStatics ==
    \A i \in 1..3 :
        /\ ~toggle.trees[i].panicked
        /\ toggle.trees[i].v.statics = <<<<"Welcome ">>, <<".">>>>
        /\ Len(toggle.trees[i].v.dynamics.v) = 1

WelcomeSlot(i) == toggle.trees[i].v.dynamics.v[1]

(* C20, as stated: for the Welcome template rendered false, true, false    *)
(* the outer statics are ["Welcome ", "."] in the three trees and the one  *)
(* slot is the empty text, then a nested tree, then the empty text.        *)
C20_SlotIsEmptyTextWhenFalse ==
    WelcomeRendered =>
        /\ WelcomeStatics
        /\ WelcomeSlot(1) = DynString(EmptyString)
        /\ WelcomeSlot(2).t = "Nested"
        /\ WelcomeSlot(3) = DynString(EmptyString)

(* C20, amended: the outer statics are ["Welcome ", "."] in the three      *)
(* trees; the one slot is the nested tree of the else branch (statics      *)
(* ["stranger"], no dynamics), then the nested tree of the then branch     *)
(* (statics ["", ""], the name as its one dynamic), then the nested tree   *)
(* of the else branch again.                                               *)
C20_SlotIsElseBranchWhenFalse ==
    WelcomeRendered =>
        /\ WelcomeStatics
        /\ WelcomeSlot(1) = DynamicNested([statics |-> <<<<"stranger">>>>,
                                           dynamics |-> DynamicsItems(<< >>),
                                           templates |-> << >>])
        /\ WelcomeSlot(2) = DynamicNested([statics |-> <<EmptyString, EmptyString>>,
                                           dynamics |-> DynamicsItems(<<DynString(<<"Bob">>)>>),
                                           templates |-> << >>])
        /\ WelcomeSlot(3) = WelcomeSlot(1)

(* the Welcome template was rendered false, true, false *)
C20_Witness ==
    /\ WelcomeRendered
    /\ Len(toggle.trees) = 3
    /\ WelcomeSlot(2).t = "Nested"

(* ----------------------------------------------------------------------- *)
(* The diffs over slot maps: rendered.rs RenderedDiff::diff, which sorts   *)
(* both maps by slot index before zipping them, and tera/json.rs           *)
(* RenderedJson::diff, which zips the two HashMaps in their iteration      *)
(* order. The iteration order of a HashMap is not specified and differs    *)
(* from map to map; it is given here by an order: for a map of n slots, a  *)
(* sequence holding each of the indices 0..n-1 once.                       *)
(* ----------------------------------------------------------------------- *)
MaxSlots == 2

(* From<Rendered> for RenderedDiff / for RenderedJson *)
RECURSIVE RenderedDiff_from(_)
RenderedDiff_from(rendered) ==
    [statics |-> Some(rendered.statics),
     dynamics |-> [i \in 0..(Len(rendered.dynamics.v) - 1) |->
                     IF rendered.dynamics.v[i + 1].t = "String"
                     THEN rendered.dynamics.v[i + 1]
                     ELSE DynamicNested(RenderedDiff_from(rendered.dynamics.v[i + 1].v))]]

MinOf2(a, b) == IF a <= b THEN a ELSE b

(* the slot a Both pair of the zip gives, if any *)
RECURSIVE zip_diff(_, _, _)
zip_both(dynamic_a, dynamic_b, order) ==
    CASE dynamic_a.t = "String" /\ dynamic_b.t = "String" ->
            IF dynamic_a.v # dynamic_b.v THEN Some(dynamic_b) ELSE None
      [] dynamic_a.t = "Nested" /\ dynamic_b.t = "Nested" ->
            IF \E d \in {zip_diff(dynamic_a.v, dynamic_b.v, order)} :
                  ~d.statics.some /\ DOMAIN d.dynamics = {}
            THEN None
            ELSE Some(DynamicNested(zip_diff(dynamic_a.v, dynamic_b.v, order)))
      [] OTHER -> Some(dynamic_b)

(* zip_longest over the two maps in the given orders, filter_map, collect: *)
(* a Both pair is kept under the index of self's entry, a Left entry is    *)
(* dropped, a Right entry is kept under its own index; collect inserts in  *)
(* zip order, so that a later entry replaces an earlier one                *)
zip_diff(self, other, order) ==
    IF self.statics # other.statics THEN other
    ELSE LET ka == order.a[Cardinality(DOMAIN self.dynamics)]
             kb == order.b[Cardinality(DOMAIN other.dynamics)]
             both == {p \in 1..MinOf2(Len(ka), Len(kb)) :
                        zip_both(self.dynamics[ka[p]], other.dynamics[kb[p]], order).some}
             right == (Len(ka) + 1)..Len(kb)
             keys == {ka[p] : p \in both} \cup {kb[p] : p \in right}
         IN  [statics |-> None,
              dynamics |->
                 [i \in keys |->
                    IF \E p \in right : kb[p] = i
                    THEN other.dynamics[i]
                    ELSE zip_both(self.dynamics[i],
                                  other.dynamics[kb[CHOOSE p \in both : ka[p] = i]],
                                  order).v]]

(* the orders a map of n slots can be iterated in *)
SlotOrders(n) ==
    {o \in [1..n -> 0..(n - 1)] : \A p, q \in 1..n : o[p] = o[q] => p = q}

MapOrders ==
    {f \in [0..MaxSlots -> UNION {SlotOrders(n) : n \in 0..MaxSlots}] :
        \A n \in 0..MaxSlots : f[n] \in SlotOrders(n)}

(* sorted_by(|(a, _), (b, _)| Ord::cmp(a, b)) *)
SortedOrder == [n \in 0..MaxSlots |-> [p \in 1..n |-> p - 1]]

(* rendered.rs: both maps are sorted by index before the zip *)
RenderedDiff_diff(self, other) ==
    zip_diff(self, other, [a |-> SortedOrder, b |-> SortedOrder])

(* tera/json.rs: the maps are zipped as they iterate *)
RenderedJson_diff(self, other, order) == zip_diff(self, other, order)

SlotTexts == {EmptyString, <<"x">>, <<"y">>}

NestedTrees ==
    {[statics |-> <<<<"person">>>>, dynamics |-> DynamicsItems(<< >>), templates |-> << >>],
     [statics |-> <<<<"stranger">>>>, dynamics |-> DynamicsItems(<< >>), templates |-> << >>],
     [statics |-> <<EmptyString, EmptyString>>,
      dynamics |-> DynamicsItems(<<DynString(<<"x">>)>>), templates |-> << >>],
     [statics |-> <<<<"Hi ">>, <<"!">>>>,
      dynamics |-> DynamicsItems(<<DynString(<<"x">>)>>), templates |-> << >>]}

Slots == {DynString(s) : s \in SlotTexts} \cup {DynamicNested(n) : n \in NestedTrees}

StaticsOf(text, n) == [i \in 1..(n + 1) |-> text]

(* trees of up to MaxSlots slots between statics *)
SlotTrees ==
    UNION {{[statics |-> StaticsOf(text, n), dynamics |-> DynamicsItems(slots),
             templates |-> << >>] :
               text \in {<<"a">>, <<"b">>}, slots \in [1..n -> Slots]} :
           n \in 0..MaxSlots}

InitSlotMaps ==
    /\ BuilderIdle
    /\ renders = NoRenders
    /\ state = NoState
    /\ patch = None
    /\ client = NoClient
    /\ toggle = NoToggle
    /\ values = NoValues
    /\ \E old \in SlotTrees, new \in SlotTrees :
          slotmaps = [NoSlotMaps EXCEPT !.old = old, !.new = new]
    /\ SessionIdle

(* the three diffs of the old tree against the new one *)
DiffSlotMaps ==
    /\ ~slotmaps.done
    /\ \E a \in MapOrders, b \in MapOrders :
       \E self \in {RenderedDiff_from(slotmaps.old)},
          other \in {RenderedDiff_from(slotmaps.new)} :
          slotmaps' = [slotmaps EXCEPT
                          !.done = TRUE,
                          !.sorted = RenderedDiff_diff(self, other),
                          !.hashed = RenderedJson_diff(self, other, [a |-> a, b |-> b]),
                          !.json = Rendered_diff(slotmaps.old, slotmaps.new)]
    /\ UNCHANGED <<renders, state, patch, client, toggle, values>>
    /\ UNCHANGED builderVars
    /\ UNCHANGED sessionVars

NextSlotMaps == DiffSlotMaps

SpecSlotMaps == InitSlotMaps /\ [][NextSlotMaps]_vars

(* ----------------------------------------------------------------------- *)
(* diff.rs diff as a function of two JSON values: the values are objects   *)
(* over a few slot keys holding strings, nulls, arrays and objects, and,   *)
(* for a missing previous value, the encodings of the trees the builder    *)
(* produces.                                                               *)
(* ----------------------------------------------------------------------- *)
MaxValueKeys == 2

ValueKeys == SlotKeys(MaxValueKeys)

ValueLeaves ==
    {JNull, JStr(EmptyString), JStr(<<"x">>), JArr(<< >>), JArr(<<JArr(<< >>)>>),
     JObj(EmptyMap)}

FlatObjects ==
    UNION {{JObj(m) : m \in [keys -> ValueLeaves]} : keys \in SUBSET ValueKeys}

JsonValues ==
    ValueLeaves \cup FlatObjects \cup {JObj("0" :> o) : o \in FlatObjects}

(* the encodings of the trees build() returns without aborting *)
EncodedRenders ==
    {into_json(t.v) :
        t \in {r \in {build(apply_events(RenderedBuilderNew, es)) :
                         es \in SmallRenders \cup LoopRenders} : ~r.panicked}}

(* the encodings of two renders of one template: trees of text slots and   *)
(* conditionals                                                            *)
EncodedSlotTrees == {into_json(t) : t \in SlotTrees}

InitValues ==
    /\ BuilderIdle
    /\ renders = NoRenders
    /\ state = NoState
    /\ patch = None
    /\ client = NoClient
    /\ toggle = NoToggle
    /\ \/ \E old \in JsonValues, new \in JsonValues :
             values = [old |-> old, new |-> new, done |-> FALSE, result |-> None]
       \/ \E new \in EncodedRenders :
             values = [old |-> JNull, new |-> new, done |-> FALSE, result |-> None]
       \/ \E old \in EncodedSlotTrees, new \in EncodedSlotTrees :
             values = [old |-> old, new |-> new, done |-> FALSE, result |-> None]
    /\ slotmaps = NoSlotMaps
    /\ SessionIdle

(* diff(&old, &new) *)
DiffValues ==
    /\ ~values.done
    /\ values' = [values EXCEPT !.done = TRUE,
                                !.result = diff(values.old, values.new)]
    /\ UNCHANGED <<renders, state, patch, client, toggle, slotmaps>>
    /\ UNCHANGED builderVars
    /\ UNCHANGED sessionVars

NextValues == DiffValues

SpecValues == InitValues /\ [][NextValues]_vars

(* every entry of a value is present in another: objects key by key (a     *)
(* statics array without entries has none to show), arrays element by      *)
(* element, strings and numbers as they are                                *)
RECURSIVE Present(_, _)
Present(value, result) ==
    CASE value.t = "obj" ->
            /\ result.t = "obj"
            /\ \A k \in DOMAIN value.v :
                  \/ k = "s" /\ value.v[k] = JArr(<< >>)
                  \/ k \in DOMAIN result.v /\ Present(value.v[k], result.v[k])
      [] value.t = "arr" ->
            /\ result.t = "arr"
            /\ Len(result.v) = Len(value.v)
            /\ \A i \in 1..Len(value.v) : Present(value.v[i], result.v[i])
      [] OTHER -> result = value

DiffedFromNull == values.done /\ values.old = JNull /\ values.new \in EncodedRenders

(* C21: when there is no previous tree (old is null), diff returns the     *)
(* entire new node: every statics entry, every dynamic slot and every row  *)
(* of every loop of the new tree's encoding is present in the result, also *)
(* rows without dynamic values.                                            *)
C21_NullOldGivesWholeNode ==
    DiffedFromNull =>
        Present(values.new,
                IF values.result.some THEN values.result.v ELSE JObj(EmptyMap))

StaticsDiffer == slotmaps.done /\ slotmaps.old.statics # slotmaps.new.statics

OldSlot(i) == slotmaps.old.dynamics.v[i + 1]

NewSlot(i) == slotmaps.new.dynamics.v[i + 1]

(* the slots both trees have, when their statics are equal *)
SharedSlots ==
    IF slotmaps.done /\ slotmaps.old.statics = slotmaps.new.statics
    THEN 0..(MinOf2(Len(slotmaps.old.dynamics.v), Len(slotmaps.new.dynamics.v)) - 1)
    ELSE {}

NestedStaticsDiffer(i) ==
    /\ OldSlot(i).t = "Nested" /\ NewSlot(i).t = "Nested"
    /\ OldSlot(i).v.statics # NewSlot(i).v.statics

(* C22: when the statics of the old and the new node at the same position  *)
(* differ, at the root or in a nested slot, the patch for the node holds   *)
(* the complete new node, its statics and every one of its dynamic slots   *)
(* whether it changed or not, from the diff over slot maps and from the    *)
(* diff over the encodings alike.                                          *)
C22_DifferentStaticsGiveWholeNode ==
    /\ StaticsDiffer =>
          /\ slotmaps.sorted = RenderedDiff_from(slotmaps.new)
          /\ slotmaps.json.some
          /\ Present(into_json(slotmaps.new), slotmaps.json.v)
    /\ \A i \in SharedSlots :
          NestedStaticsDiffer(i) =>
             /\ i \in DOMAIN slotmaps.sorted.dynamics
             /\ slotmaps.sorted.dynamics[i] = DynamicNested(RenderedDiff_from(NewSlot(i).v))
             /\ slotmaps.json.some
             /\ ToKey(i) \in DOMAIN slotmaps.json.v.v
             /\ Present(into_json(NewSlot(i).v), slotmaps.json.v.v[ToKey(i)])

BothText(i) == OldSlot(i).t = "String" /\ NewSlot(i).t = "String"

(* the value a patch over the encodings holds under a slot's key, if any *)
JsonPatchHas(i) == slotmaps.json.some /\ ToKey(i) \in DOMAIN slotmaps.json.v.v

JsonPatchAt(i) == slotmaps.json.v.v[ToKey(i)]

(* C23: for two nodes with equal statics whose slots at position i are     *)
(* both Text, the patch holds key i exactly when the two strings differ,   *)
(* and its value is then the new string, the empty string included.        *)
C23_TextSlotPatchedIffChanged ==
    \A i \in SharedSlots :
        BothText(i) =>
           /\ i \in DOMAIN slotmaps.sorted.dynamics <=> OldSlot(i).v # NewSlot(i).v
           /\ i \in DOMAIN slotmaps.sorted.dynamics =>
                 slotmaps.sorted.dynamics[i] = DynString(NewSlot(i).v)
           /\ JsonPatchHas(i) <=> OldSlot(i).v # NewSlot(i).v
           /\ JsonPatchHas(i) => JsonPatchAt(i) = JStr(NewSlot(i).v)

KindChanges(i) == OldSlot(i).t # NewSlot(i).t

(* C24: when the slot at a position changes kind between Text and Nested,  *)
(* the patch holds the complete new value of the slot: the new string for  *)
(* Nested to Text, the empty string of a conditional that turned false     *)
(* included, and the complete nested encoding for Text to Nested.          *)
C24_KindChangeGivesWholeSlot ==
    \A i \in SharedSlots :
        KindChanges(i) =>
           /\ i \in DOMAIN slotmaps.sorted.dynamics
           /\ slotmaps.sorted.dynamics[i] =
                 (IF NewSlot(i).t = "String" THEN NewSlot(i)
                  ELSE DynamicNested(RenderedDiff_from(NewSlot(i).v)))
           /\ JsonPatchHas(i)
           /\ JsonPatchAt(i) = Dynamic_into_json(NewSlot(i))

(* ----------------------------------------------------------------------- *)
(* Properties of the patch between two renders that hold loops             *)
(* ----------------------------------------------------------------------- *)
(* an encoded loop: an object with statics and a row list *)
IsLoop(value) == value.t = "obj" /\ "s" \in DOMAIN value.v /\ "d" \in DOMAIN value.v

(* the slots that hold a loop with the same statics in both encodings *)
LoopSlots(old, new) ==
    {k \in DOMAIN old.v \cap DOMAIN new.v :
        /\ IsLoop(old.v[k]) /\ IsLoop(new.v[k])
        /\ old.v[k].v["s"] = new.v[k].v["s"]}

(* the patch carries a row list for the loop in slot k *)
HasRows(k) ==
    /\ patch.some
    /\ patch.v.t = "obj"
    /\ k \in DOMAIN patch.v.v
    /\ patch.v.v[k].t = "obj"
    /\ "d" \in DOMAIN patch.v.v[k].v

RowsIn(k) == patch.v.v[k].v["d"]

(* the template ids the nested items of a row reference *)
RowTemplateIds(row) ==
    [j \in 1..Len(row.v) |->
        IF row.v[j].t = "obj" /\ "s" \in DOMAIN row.v[j].v /\ row.v[j].v["s"].t = "num"
        THEN row.v[j].v["s"].v
        ELSE -1]

SameRowsShape(old, new) ==
    /\ Len(old.v) = Len(new.v)
    /\ \A r \in 1..Len(old.v) : RowTemplateIds(old.v[r]) = RowTemplateIds(new.v[r])

(* C25, as stated: for a loop slot whose statics are unchanged, a change   *)
(* of the number of rows or of a row's template id gives the complete new  *)
(* row list; with the same row count and template ids the patch carries    *)
(* only the diffs of the rows that changed and nothing for a row that did  *)
(* not change.                                                             *)
C25_OnlyChangedRowsAreSent ==
    state.diffed =>
        \A old \in {into_json(render(renders.old))}, new \in {into_json(state.v)} :
            \A k \in LoopSlots(old, new) :
                IF ~SameRowsShape(old.v[k].v["d"], new.v[k].v["d"])
                THEN HasRows(k) /\ RowsIn(k) = new.v[k].v["d"]
                ELSE \A r \in 1..Len(new.v[k].v["d"].v) :
                        /\ old.v[k].v["d"].v[r] = new.v[k].v["d"].v[r]
                        /\ new.v[k].v["d"].v[r] # JArr(<< >>)
                        => ~(/\ HasRows(k)
                             /\ RowsIn(k).t = "arr"
                             /\ r <= Len(RowsIn(k).v)
                             /\ RowsIn(k).v[r] = new.v[k].v["d"].v[r])

(* C25, amended: for a loop slot whose statics are unchanged, the patch    *)
(* carries the complete new row list, unchanged rows included, whenever    *)
(* the row lists differ in any way (row count, template id or a value of   *)
(* one row), and carries no rows when the row lists are equal.             *)
C25_AnyRowChangeResendsAllRows ==
    state.diffed =>
        \A old \in {into_json(render(renders.old))}, new \in {into_json(state.v)} :
            \A k \in LoopSlots(old, new) :
                IF old.v[k].v["d"] = new.v[k].v["d"]
                THEN ~HasRows(k)
                ELSE HasRows(k) /\ RowsIn(k) = new.v[k].v["d"]

(* two renders of a loop with the same number of rows, of which one row    *)
(* changed and one did not, and the patch carries both rows                *)
C25_Witness ==
    /\ state.diffed
    /\ \E old \in {into_json(render(renders.old))}, new \in {into_json(state.v)} :
          \E k \in LoopSlots(old, new) :
             /\ SameRowsShape(old.v[k].v["d"], new.v[k].v["d"])
             /\ \E r, q \in 1..Len(new.v[k].v["d"].v) :
                   /\ old.v[k].v["d"].v[r] = new.v[k].v["d"].v[r]
                   /\ new.v[k].v["d"].v[r] # JArr(<< >>)
                   /\ old.v[k].v["d"].v[q] # new.v[k].v["d"].v[q]
             /\ HasRows(k)
             /\ RowsIn(k) = new.v[k].v["d"]

(* the new render is the old render's loop run over no item: the old       *)
(* render is one loop that ran at least one iteration and pushed content   *)
LoopEmptied ==
    /\ state.diffed
    /\ Len(renders.old) >= 4
    /\ renders.old[1] = EvFor
    /\ renders.old[2] = EvItem
    /\ renders.old[Len(renders.old)] = EvPop
    /\ \A i \in 2..(Len(renders.old) - 1) :
          renders.old[i].k \in {"push_for_item", "push_static", "push_dynamic"}
    /\ \E i \in 3..(Len(renders.old) - 1) :
          renders.old[i].k \in {"push_static", "push_dynamic"}
    /\ renders.new = <<EvFor, EvPop>>

RECURSIVE NoNullOrEmptyObject(_)
NoNullOrEmptyObject(value) ==
    CASE value.t = "null" -> FALSE
      [] value.t = "obj" ->
            /\ DOMAIN value.v # {}
            /\ \A k \in DOMAIN value.v : NoNullOrEmptyObject(value.v[k])
      [] value.t = "arr" -> \A i \in 1..Len(value.v) : NoNullOrEmptyObject(value.v[i])
      [] OTHER -> TRUE

(* C27: no patch diff returns holds a null value or an empty object at any *)
(* depth, for every pair of old and new values, also when a key of the old *)
(* value is absent from the new one; when nothing remains, diff returns    *)
(* None.                                                                   *)
C27_PatchHasNoNullOrEmptyObject ==
    values.done /\ values.result.some => NoNullOrEmptyObject(values.result.v)

(* C28: when two trees with equal statics are diffed, the slot at position *)
(* i of the old tree is compared with the slot at position i of the new    *)
(* tree and with no other, and a change is reported under key i, whatever  *)
(* the iteration order of the maps that hold the slots: every diff has an  *)
(* entry for slot i exactly when the two slots at i differ, and the diff   *)
(* over the maps as they iterate is the diff over the sorted maps.         *)
C28_SlotsComparedByPosition ==
    \A i \in SharedSlots :
        /\ i \in DOMAIN slotmaps.sorted.dynamics <=> OldSlot(i) # NewSlot(i)
        /\ JsonPatchHas(i) <=> OldSlot(i) # NewSlot(i)
        /\ i \in DOMAIN slotmaps.hashed.dynamics <=> OldSlot(i) # NewSlot(i)
        /\ i \in DOMAIN slotmaps.hashed.dynamics =>
              slotmaps.hashed.dynamics[i] = slotmaps.sorted.dynamics[i]

(* ----------------------------------------------------------------------- *)
(* Frames that produced nothing                                            *)
(* ----------------------------------------------------------------------- *)
(* the frame opened by event i is closed by the next event *)
EmptyFrameAt(es, i, open) == i < Len(es) /\ es[i] = open /\ es[i + 1] = EvPop

(* the events with the empty frame at i replaced by push_dynamic("") *)
WithEmptyText(es, i) ==
    SubSeq(es, 1, i - 1) \o <<EvDynamic(EmptyString)>> \o SubSeq(es, i + 2, Len(es))

(* the tree and abort flag build() gives for a sequence of events *)
BuiltFrom(es) ==
    The({[done |-> TRUE, panicked |-> r.panicked, v |-> r.v] :
            r \in {build(apply_events(RenderedBuilderNew, es))}})

(* the dynamic slots of a tree and the size of its template table, the     *)
(* static text of the Items nodes left out                                 *)
RECURSIVE DynamicsOnly(_)
DynamicsOnly(rendered) ==
    IF rendered.dynamics.t = "Items"
    THEN [dynamics |-> [i \in 1..Len(rendered.dynamics.v) |->
                           IF rendered.dynamics.v[i].t = "Nested"
                           THEN DynamicNested(DynamicsOnly(rendered.dynamics.v[i].v))
                           ELSE rendered.dynamics.v[i]],
          templates |-> 0]
    ELSE [dynamics |-> rendered.dynamics.v, templates |-> Len(rendered.templates)]

(* C29: a conditional frame whose body pushed no static and no dynamic     *)
(* content is represented in its parent as the dynamic slot Text("") and   *)
(* not as a Nested tree, and inside a loop it adds no entry to the         *)
(* template table: the dynamic slots and the template table are those the  *)
(* same events give with push_dynamic("") in place of the frame.           *)
C29_EmptyConditionalIsEmptyText ==
    Built =>
        \A i \in 1..Len(events) :
            EmptyFrameAt(events, i, EvIf) =>
                \A other \in {BuiltFrom(WithEmptyText(events, i))} :
                    /\ ~other.panicked
                    /\ DynamicsOnly(built.v) = DynamicsOnly(other.v)

(* a tree was built from a loop whose row holds an empty conditional *)
C29_Witness ==
    /\ Built
    /\ Len(events) >= 5
    /\ events[1] = EvFor
    /\ events[2] = EvItem
    /\ EmptyFrameAt(events, 3, EvIf)
    /\ built.v.dynamics.v[1].t = "Nested"
    /\ built.v.dynamics.v[1].v.dynamics = DynamicsList(<<<<DynString(EmptyString)>>>>)
    /\ built.v.dynamics.v[1].v.templates = << >>

(* the number of static entries of the root before event i *)
StaticsBefore(es, i) ==
    Len(apply_events(RenderedBuilderNew, SubSeq(es, 1, i - 1)).nodes[1].statics)

(* C30: a loop frame that ran zero iterations is represented in its parent *)
(* as the single dynamic slot Text(""), adds no template entry, and leaves *)
(* the parent's statics before and after the loop as separate entries      *)
(* around that slot: the dynamic slots and the template table are those    *)
(* the same calls give with push_dynamic("") in place of the loop, and a   *)
(* static pushed to the root after the loop is not joined to the one       *)
(* before it.                                                              *)
C30_EmptyLoopIsEmptyText ==
    Built =>
        \A i \in 1..Len(events) :
            EmptyFrameAt(events, i, EvFor) =>
                /\ \A other \in {BuiltFrom(WithEmptyText(events, i))} :
                      /\ ~other.panicked
                      /\ DynamicsOnly(built.v) = DynamicsOnly(other.v)
                /\ (/\ i > 1
                    /\ i + 2 <= Len(events)
                    /\ events[i - 1].k = "push_static"
                    /\ events[i + 2].k = "push_static"
                    /\ FramesAfterAll(<< >>, SubSeq(events, 1, i - 1)) = << >>)
                   => Len(built.v.statics) > StaticsBefore(events, i)

(* ----------------------------------------------------------------------- *)
(* The statics of a loop that ran no iteration                             *)
(* ----------------------------------------------------------------------- *)
(* C31: a loop frame with zero iterations still gets a statics shape, and  *)
(* that shape is the static structure of the loop body: the statics the    *)
(* same loop has after one or more iterations.                             *)
C31_EmptyLoopHasBodyStatics ==
    LoopEmptied =>
        \A old \in {render(renders.old)} :
            /\ state.v.dynamics.v[1].t = "Nested"
            /\ state.v.dynamics.v[1].v.statics = old.dynamics.v[1].v.statics

(* ----------------------------------------------------------------------- *)
(* The static entry after a pushed dynamic                                 *)
(* ----------------------------------------------------------------------- *)
(* the last two calls were push_dynamic and then push_static *)
StaticAfterDynamic ==
    /\ ~builder.panicked
    /\ ~built.done
    /\ Len(events) >= 2
    /\ events[Len(events) - 1].k = "push_dynamic"
    /\ events[Len(events)].k = "push_static"

(* the slots of the node the pushes go to: those of the row for a loop *)
CurrentSlots(node) ==
    IF node.t = "Items" THEN node.dynamics ELSE node.dynamics[Len(node.dynamics)]

(* C32: after push_dynamic on the current node (conditional or root node,  *)
(* or loop row) a static entry exists after the new dynamic slot, so that  *)
(* two consecutive push_dynamic calls are separated by an empty static     *)
(* entry and a later push_static lands after the last pushed dynamic: the  *)
(* node then has one static more than it has slots and its last static is  *)
(* the pushed text. A loop keeps the statics of its first row only.        *)
C32_StaticLandsAfterLastDynamic ==
    StaticAfterDynamic =>
        \A node \in {builder.nodes[builder.last_node]} :
            (node.t = "List" => node.iteration = 0) =>
                /\ Len(node.statics) = Len(CurrentSlots(node)) + 1
                /\ node.statics[Len(node.statics)] = events[Len(events)].s

(* ----------------------------------------------------------------------- *)
(* Frames and the node the pushes go to                                    *)
(* ----------------------------------------------------------------------- *)
(* the number of frames between a node and the root *)
RECURSIVE NodeDepth(_, _)
NodeDepth(b, id) ==
    IF b.nodes[id].parent = NullNodeId THEN 0 ELSE 1 + NodeDepth(b, b.nodes[id].parent)

(* the call just made *)
Called(k) ==
    /\ Len(events') = Len(events) + 1
    /\ events'[Len(events')].k \in k

(* all nodes but the current one are left as they were *)
OthersUnchanged ==
    \A id \in 1..Len(builder.nodes) :
        id # builder.last_node => builder'.nodes[id] = builder.nodes[id]

(* the current node is the innermost open frame *)
CurrentIsInnermostFrame ==
    /\ last_node_ok(builder)
    /\ NodeDepth(builder, builder.last_node) = Len(frames)
    /\ frames # << >> =>
          (builder.nodes[builder.last_node].t = "List") = frames[Len(frames)].for

(* a frame call adds one slot to the current node and moves to the child *)
FrameOpens ==
    Called({"push_if_frame", "push_for_frame"}) =>
        /\ Len(builder'.nodes) = Len(builder.nodes) + 1
        /\ builder'.last_node = Len(builder'.nodes)
        /\ builder'.nodes[builder'.last_node].parent = builder.last_node
        /\ builder'.nodes[builder'.last_node].statics = << >>
        /\ builder'.nodes[builder'.last_node].dynamics = << >>
        /\ (builder'.nodes[builder'.last_node].t = "List")
              = (events'[Len(events')].k = "push_for_frame")
        /\ CurrentSlots(builder'.nodes[builder.last_node])
              = Append(CurrentSlots(builder.nodes[builder.last_node]),
                       DynNested(builder'.last_node))
        /\ OthersUnchanged

(* a push changes the current node only, and leaves it current *)
PushStaysInFrame ==
    Called({"push_static", "push_dynamic", "push_for_item"}) =>
        /\ builder'.last_node = builder.last_node
        /\ Len(builder'.nodes) = Len(builder.nodes)
        /\ OthersUnchanged

(* pop_frame goes back to the parent and changes no node *)
PopReturnsToParent ==
    Called({"pop_frame"}) =>
        /\ builder'.last_node = builder.nodes[builder.last_node].parent
        /\ builder'.nodes = builder.nodes

(* C33: push_if_frame and push_for_frame add exactly one dynamic slot to   *)
(* the node that was current and make the new child current; every         *)
(* following push_static and push_dynamic goes to that child until the     *)
(* matching pop_frame, after which pushes go to the parent again, at any   *)
(* nesting depth and for any balanced sequence of frames.                  *)
C33_PushesGoToInnermostFrame ==
    /\ [](~built.done => CurrentIsInnermostFrame)
    /\ [][FrameOpens /\ PushStaysInFrame /\ PopReturnsToParent]_vars

(* a static pushed after the pop of a nested loop went to the conditional  *)
(* around it                                                               *)
C33_Witness ==
    /\ events = <<EvIf, EvFor, EvItem, EvStatic(<<"a">>), EvPop, EvStatic(<<"a">>)>>
    /\ builder.last_node = 2
    /\ builder.nodes[2].statics = <<EmptyString, <<"a">>>>
    /\ builder.nodes[2].dynamics = <<DynNested(3)>>
    /\ builder.nodes[3].statics = <<<<"a">>>>
    /\ builder.nodes[1].dynamics = <<DynNested(2)>>

(* ----------------------------------------------------------------------- *)
(* build() called inside an open frame                                     *)
(* ----------------------------------------------------------------------- *)
BuildOpen ==
    /\ ~built.done
    /\ frames # << >>
    /\ \E r \in {build(builder)} :
          built' = [done |-> TRUE, panicked |-> r.panicked, v |-> r.v]
    /\ UNCHANGED <<builder, events, frames>>
    /\ UNCHANGED diffVars
    /\ UNCHANGED sessionVars

NextOpen ==
    \/ PushStatic
    \/ PushDynamic
    \/ PushIfFrame
    \/ PushForFrame
    \/ PushForItem
    \/ PopFrame
    \/ BuildOpen

SpecOpen == InitBuilder /\ [][NextOpen]_vars

(* C34: build() called while one or more frames are still open returns    *)
(* the tree of the root node, with the content pushed into every open      *)
(* frame included at its slot.                                             *)
C34_OpenBuildGivesRootTree ==
    built.done /\ frames # << >> =>
        \A root \in {Node_build(builder, 1)} :
            /\ built.panicked = root.panicked
            /\ built.v = root.v

(* ----------------------------------------------------------------------- *)
(* An event whose payload does not deserialize                             *)
(* ----------------------------------------------------------------------- *)
(* a HandleEvent message for a registered event with a payload that is not *)
(* a value of the event's type                                             *)
DeserializeFails(m) ==
    /\ m.kind = "HandleEvent"
    /\ ~m.ev.value_ok
    /\ \E i \in 1..Len(List_Events) : List_Events[i] = m.ev.name

(* the event_handler process finishes such a message *)
FailedEventLeavesSession ==
    \A m \in running :
        DeserializeFails(m) /\ session.mounted /\ m \notin running' =>
            /\ session' = session
            /\ outbox' = outbox
            /\ handled'[Len(handled')].variant = "none"
            /\ \E r \in replies' \ replies :
                  /\ r.tag = m.tag
                  /\ ~r.ok
                  /\ r.err = "deserialize event failed"

(* the connection process takes the reply to such a message *)
FailedEventKeepsLoop ==
    \A r \in replies :
        r.to = "conn" /\ r.err = "deserialize event failed" /\ r \notin replies' =>
            /\ conn'.pc = "loop"
            /\ outbox' = outbox
            /\ session' = session

(* C35: an Event received while Joined whose name matches a registered     *)
(* handler but whose payload fails to deserialize into that handler's      *)
(* event type does not invoke the handler: the view and the last tree are  *)
(* unchanged, no render is done, nothing is written, and the session stays *)
(* Joined.                                                                 *)
C35_DeserializeFailureKeepsSession ==
    [][FailedEventLeavesSession /\ FailedEventKeepsLoop]_vars

(* a joined session has answered an event with a deserialization error and *)
(* reads on                                                                *)
C35_Witness ==
    /\ Len(handled) = 2
    /\ handled[2].err = "deserialize event failed"
    /\ handled[2].after = handled[2].before
    /\ session.mounted
    /\ conn.pc = "loop"
    /\ replies = {}
    /\ Len(outbox) = 1

(* ----------------------------------------------------------------------- *)
(* socket.rs: events sent from inside an event handler                     *)
(* ----------------------------------------------------------------------- *)
(* Socket::send_event called from a handler: _send_event sends HandleEvent *)
(* to the event_handler process, which is the caller, and does not return: *)
(* tag_receive waits for a reply only that process could send              *)
send_event_in_handler(procs, by) == [procs |-> procs, returned |-> FALSE]

(* Socket::spawn_send_event: Process::spawn of a process that will call    *)
(* _send_event; the call returns at once                                   *)
spawn_send_event(procs, by) ==
    [procs |-> Append(procs, [pc |-> "spawned", tag |-> 0, by |-> by]),
     returned |-> TRUE]

(* examples/clock.rs: the handler of ChangeTimezone ends with              *)
(* spawn_send_event(Tick {}); in the list view Add takes that part, and    *)
(* the event sent is the one the timer sends                               *)
Spawns(name) == name = "Add"

(* event_handler: the HandleEvent arm, with a handler that sends an event; *)
(* the handler runs only when the event is known and deserializes          *)
ActorHandleEventSpawn ==
    \E m \in running :
        /\ m.kind = "HandleEvent"
        /\ \E result \in {event_handler_HandleEvent(session, m.ev)} :
             \E sent_by \in {IF result.variant # "none" /\ Spawns(m.ev.name)
                             THEN spawn_send_event(spawned, m.tag)
                             ELSE [procs |-> spawned, returned |-> TRUE]} :
               IF sent_by.returned
               THEN /\ spawned' = sent_by.procs
                    /\ session' = result.session
                    /\ replies' = replies \cup {ReplyTo(m, result.reply)}
                    /\ handled' = Append(handled, Entry(m, session, result))
                    /\ running' = running \ {m}
                    /\ UNCHANGED <<mailbox, arrivals>>
               ELSE /\ running' = (running \ {m}) \cup {[m EXCEPT !.kind = "Blocked"]}
                    /\ mailbox' = Append(mailbox,
                           HandleEventMessage("event_handler", arrivals + 1, TickEvent))
                    /\ arrivals' = arrivals + 1
                    /\ UNCHANGED <<spawned, session, replies, handled>>
        /\ UNCHANGED <<inbox, outbox, sent, conn, ticker, started>>
        /\ UNCHANGED <<builderVars, diffVars>>

(* the spawned process: _send_event sends HandleEvent to the event_handler *)
(* process                                                                 *)
SpawnedSend ==
    \E i \in 1..Len(spawned) :
        /\ spawned[i].pc = "spawned"
        /\ spawned' = [spawned EXCEPT ![i] = [@ EXCEPT !.pc = "waiting",
                                                        !.tag = arrivals + 1]]
        /\ mailbox' = Append(mailbox,
                             HandleEventMessage("spawned", arrivals + 1, TickEvent))
        /\ arrivals' = arrivals + 1
        /\ UNCHANGED <<inbox, outbox, sent, conn, running, session, replies, ticker,
                       started, handled>>
        /\ UNCHANGED <<builderVars, diffVars>>

(* the spawned process: the tagged reply arrives and _send_event writes    *)
(* the diff through its clone of the socket; an error makes unwrap() panic *)
SpawnedReply ==
    \E i \in 1..Len(spawned), r \in replies, written \in BOOLEAN :
        /\ spawned[i].pc = "waiting"
        /\ r.to = "spawned" /\ r.tag = spawned[i].tag
        /\ conn.pc # "closed" => written
        /\ replies' = replies \ {r}
        /\ IF r.ok /\ written
           THEN /\ outbox' = Append(outbox, Written(send_diff(send_event_msg(r)), r.tag))
                /\ spawned' = [spawned EXCEPT ![i] = [@ EXCEPT !.pc = "done"]]
           ELSE /\ outbox' = outbox
                /\ spawned' = [spawned EXCEPT ![i] = [@ EXCEPT !.pc = "panicked"]]
        /\ UNCHANGED <<inbox, sent, conn, mailbox, arrivals, running, session, ticker,
                       started, handled>>
        /\ UNCHANGED <<builderVars, diffVars>>

NextSpawn ==
    \/ ClientSend
    \/ WaitForJoin
    \/ JoinReply
    \/ HandleMessage
    \/ EventReply
    \/ ActorReceive
    \/ ActorHandleJoin
    \/ ActorHandleEventSpawn
    \/ SpawnedSend
    \/ SpawnedReply

SpecSpawn == Init /\ [][NextSpawn]_vars

(* the event_handler process runs the arm of the message it took to its    *)
(* end, unless the handler blocks                                          *)
ActorFinishes ==
    \E m \in running :
        /\ m.kind # "Blocked"
        /\ running' = running \ {m}

(* every process runs on: the scheduler gives each of them a turn *)
FairSpawn ==
    /\ SpecSpawn
    /\ WF_vars(ActorReceive)
    /\ WF_running(ActorFinishes)
    /\ WF_vars(SpawnedSend)
    /\ WF_vars(SpawnedReply)

TagHandled(t) == \E i \in 1..Len(handled) : handled[i].tag = t

HandledAt(t) == CHOOSE i \in 1..Len(handled) : handled[i].tag = t

(* the i-th spawned process has finished: its event was handled after the  *)
(* event whose handler sent it, and its diff was written unless the        *)
(* connection process had ended                                            *)
SpawnedProcessed(i) ==
    /\ Len(spawned) >= i
    /\ spawned[i].pc \in {"done", "panicked"}
    /\ TagHandled(spawned[i].tag) /\ TagHandled(spawned[i].by)
    /\ HandledAt(spawned[i].by) < HandledAt(spawned[i].tag)
    /\ \E e \in {handled[HandledAt(spawned[i].tag)]} :
          /\ e.err = ""
          /\ e.before = handled[HandledAt(spawned[i].tag) - 1].after
          /\ e.live_view = List_handle(e.before_view, e.name)
          /\ e.after = List_render(e.live_view)
          /\ IF spawned[i].pc = "done"
             THEN \E k \in 1..Len(outbox) :
                     outbox[k] = Written(send_diff(send_event_msg(e.reply)), e.tag)
             ELSE conn.pc = "closed"

(* a handler is running or an event sent by a handler is not through *)
SpawnBusy ==
    \/ running # {}
    \/ \E i \in 1..Len(spawned) : spawned[i].pc \in {"spawned", "waiting"}

(* no handler is running and every event sent by a handler is through *)
SpawnQuiet ==
    /\ running = {}
    /\ \A i \in 1..Len(spawned) : SpawnedProcessed(i)

(* C36: an event sent with Socket::spawn_send_event from inside a running  *)
(* event handler does not block that handler (the handler returns and the  *)
(* event_handler process becomes idle again), and it is eventually         *)
(* processed by the session actor (handler, render, diff sent) after the   *)
(* processing of the event whose handler sent it has finished. The diff is *)
(* written while the connection process lives.                             *)
C36_SpawnedEventIsProcessedLater ==
    /\ [](\A i \in 1..Len(spawned) :
             /\ TagHandled(spawned[i].by)
             /\ spawned[i].pc \in {"done", "panicked"} => SpawnedProcessed(i))
    /\ SpawnBusy ~> SpawnQuiet

(* an event sent by a handler was handled and its diff written, while a    *)
(* later client event was handled in between                               *)
C36_Witness ==
    /\ Len(spawned) >= 1
    /\ SpawnedProcessed(1)
    /\ spawned[1].pc = "done"
    /\ HandledAt(spawned[1].tag) > HandledAt(spawned[1].by) + 1

(* ----------------------------------------------------------------------- *)
(* The order of the patches on the socket                                  *)
(* ----------------------------------------------------------------------- *)
(* a written message that carries a patch: the reply to a client event     *)
(* with a diff, or a Diff push that is not empty                           *)
IsPatch(w) ==
    \/ w.event = "phx_reply" /\ w.response.t = "obj" /\ "diff" \in DOMAIN w.response.v
    \/ w.event = "diff" /\ w.response # JObj(EmptyMap)

(* the place in the order of handling of the event that caused the message *)
ComputedAt(w) == CHOOSE k \in 1..Len(handled) : handled[k].tag = w.tag

(* C37: for one session, patches are written to the transport in the same  *)
(* order in which they were computed against the last tree, also when a    *)
(* server-originated event (diff written by the sending process) and a     *)
(* client-originated event (reply written by the read loop) are in flight  *)
(* at the same time.                                                       *)
C37_PatchesWrittenInComputedOrder ==
    \A i, j \in 1..Len(outbox) :
        i < j /\ IsPatch(outbox[i]) /\ IsPatch(outbox[j]) =>
            ComputedAt(outbox[i]) < ComputedAt(outbox[j])

(* ----------------------------------------------------------------------- *)
(* The kept tree and the view                                              *)
(* ----------------------------------------------------------------------- *)
(* the event_handler process of a joined session waits for a message *)
ActorIdle == session.mounted /\ running = {}

(* C38: whenever a joined session's actor is idle between two messages,    *)
(* the last tree equals the tree render produces from the current view;    *)
(* this holds after handled events, unknown events, payload                *)
(* deserialization failures, heartbeats and dropped messages.              *)
C38_KeptTreeIsRenderOfView ==
    ActorIdle => session.state = List_render(session.live_view)

(* an idle joined session that has handled an event which changed the view *)
(* and has refused another                                                 *)
C38_Witness ==
    /\ ActorIdle
    /\ session.live_view.numbers # << >>
    /\ \E k \in 1..Len(handled) :
          handled[k].err \in {"unknown event", "deserialize event failed"}
    /\ \E k \in 1..Len(handled) :
          HandledEvent(handled[k]) /\ handled[k].after # handled[k].before

(* ----------------------------------------------------------------------- *)
(* A second join                                                           *)
(* ----------------------------------------------------------------------- *)
(* the read loop of a joined session takes a Join message from the socket *)
ReadsSecondJoin ==
    /\ conn.pc = "loop"
    /\ inbox # << >>
    /\ Head(inbox).event = "phx_join"
    /\ inbox' = Tail(inbox)

(* the number of times the view was mounted *)
Mounts == Cardinality({k \in 1..Len(handled) : handled[k].kind = "HandleJoin"})

(* C39: a Join message received while the session is already joined ends   *)
(* the session: the connection goes to closed and stays there, the view is *)
(* not mounted a second time, the last tree is not replaced and no reply   *)
(* is sent for that Join.                                                  *)
C39_SecondJoinClosesSession ==
    /\ [](Mounts <= 1)
    /\ [][/\ ReadsSecondJoin =>
               /\ conn'.pc = "closed"
               /\ outbox' = outbox
               /\ mailbox' = mailbox
               /\ session' = session
          /\ conn.pc = "closed" =>
               /\ conn' = conn
               /\ \A i \in 1..Len(mailbox') : mailbox'[i].kind # "HandleJoin"]_vars

(* a joined session was closed by a second Join: one mount, one reply *)
C39_Witness ==
    /\ conn.pc = "closed"
    /\ conn.message.event = "phx_join"
    /\ session.mounted
    /\ Mounts = 1
    /\ Len(outbox) = 1
    /\ inbox # << >>

(* ----------------------------------------------------------------------- *)
(* Template ids of list items. The built tree is walked side by side with  *)
(* the builder nodes it was built from: slot j of row r of a node is slot  *)
(* j of row r of the item built from it.                                   *)
(* ----------------------------------------------------------------------- *)

(* the rows of dynamic slots a node holds: one for an Items node *)
RowsOfNode(node) == IF node.t = "Items" THEN <<node.dynamics>> ELSE node.dynamics

(* the dynamic slots of an item: those of its longest row *)
SlotsOfNode(node) ==
    IF RowsOfNode(node) = << >> THEN 0
    ELSE CHOOSE n \in {Len(RowsOfNode(node)[r]) : r \in 1..Len(RowsOfNode(node))} :
             \A r \in 1..Len(RowsOfNode(node)) : Len(RowsOfNode(node)[r]) <= n

(* template is statics as insert_empty_strings leaves them for an item of *)
(* that many slots: followed by empty strings up to slots + 1 entries,     *)
(* and as pushed for an item without slots                                *)
IsPaddedStatics(template, statics, slots) ==
    /\ Len(template) = IF slots = 0 THEN Len(statics)
                       ELSE MaxOf(Len(statics), slots + 1)
    /\ \A i \in 1..Len(template) :
          template[i] = IF i <= Len(statics) THEN statics[i] ELSE EmptyString

RECURSIVE ItemTemplateOk(_, _, _, _)
ItemTemplateOk(b, id, item, templates) ==
    /\ item.statics + 1 \in 1..Len(templates)
    /\ IsPaddedStatics(templates[item.statics + 1], b.nodes[id].statics,
                       SlotsOfNode(b.nodes[id]))
    /\ \A r \in 1..Len(RowsOfNode(b.nodes[id])) :
          \A j \in 1..Len(RowsOfNode(b.nodes[id])[r]) :
              item.dynamics[r].v[1][j].t = "Nested" =>
                  ItemTemplateOk(b, RowsOfNode(b.nodes[id])[r][j].v,
                                 item.dynamics[r].v[1][j].v, templates)

RECURSIVE TreeTemplatesOk(_, _, _)
TreeTemplatesOk(b, id, rendered) ==
    IF b.nodes[id].t = "Items"
    THEN \A i \in 1..Len(rendered.dynamics.v) :
             rendered.dynamics.v[i].t = "Nested" =>
                 TreeTemplatesOk(b, b.nodes[id].dynamics[i].v, rendered.dynamics.v[i].v)
    ELSE \A r \in 1..Len(rendered.dynamics.v) :
             \A j \in 1..Len(rendered.dynamics.v[r]) :
                 rendered.dynamics.v[r][j].t = "Nested" =>
                     ItemTemplateOk(b, b.nodes[id].dynamics[r][j].v,
                                    rendered.dynamics.v[r][j].v, rendered.templates)

(* rows whose body is a conditional: one branch holds text, the other a    *)
(* loop, as in @if leaf { "a" } @else { @for x in xs { "a" (x) } }         *)
BranchBodies ==
    {<<EvIf, EvFor, EvItem>> \o c \o <<EvPop, EvPop>> : c \in RowContents}

(* the loops of the branch rows come from one template *)
SameBranchTemplate(body, rows) ==
    \A i \in 1..Len(rows) :
        Len(rows[i]) > 2 /\ rows[i][2] = EvFor => Tokens(rows[i]) = Tokens(body)

PushBranchRow ==
    \E body \in BranchBodies :
        /\ ~built.done
        /\ Len(frames) = 1
        /\ frames[1].rows < MaxRows
        /\ EventAllowed(FramesAfter(frames, EvItem), body[1])
        /\ SameBranchTemplate(body, RowsOfEvents(Tail(events), 0, << >>))
        /\ PushedAll(<<EvItem>> \o body)

NextBranchRows ==
    \/ BeginLoop
    \/ PushRow
    \/ PushBranchRow
    \/ EndLoop
    \/ BuildRows

SpecBranchRows == InitBuilder /\ [][NextBranchRows]_vars

(* C40: in every tree build() returns, the template id of each list item,  *)
(* at any nesting depth inside a loop, is an index into the templates      *)
(* table of the enclosing loop's tree, and the entry there is the statics  *)
(* of the node the item was built from, padded with empty strings to the   *)
(* item's number of dynamic slots plus one (an item without dynamic slots  *)
(* keeps its statics as they were pushed).                                 *)
C40_TemplateIdsIndexItemStatics ==
    Built => TreeTemplatesOk(builder, builder.last_node, built.v)

====
